---- MODULE Spec2Model ----
(***************************************************************************)
(* State-machine model of the HoneyBadgerBFT sealing engine                *)
(* (hbbft_engine.rs) and of the message memorium                           *)
(* (hbbft_message_memorium.rs).                                            *)
(*                                                                         *)
(* Every read/write lock acquisition of the engine is one atomic step of   *)
(* the calling thread; what a thread does between two acquisitions is      *)
(* folded into the step that follows it.                                   *)
(***************************************************************************)
EXTENDS Integers, Sequences, FiniteSets, TLC

\* ------------------------------------------------------------------ bounds
\* Highest block number of the model; the chain head ranges over 0..MaxBlock-1.
MaxBlock == 2
\* Size of the validator roster; the local node is validator 1.
NumValidators == 3
\* Number of distinct valid shares the threshold signature needs.
Threshold == 2
\* Longest seal (number of seal fields) of a header handed to verify_block_family.
MaxSealFields == 2
\* Most messages in one step of the BFT core.
MaxStepMessages == 2
\* Highest value the message counter reaches in the model.
MaxCounter == 4
\* Most entries the producers hand to the dispatcher.
MaxEnqueued == 3
\* Highest epoch of an audit entry.
MaxEpoch == 3
\* The nonzero retention (blocks to keep on disk) of the model; 0 is the other one.
Retention == 1
\* Most I/O failures the audit worker meets.
MaxFaults == 1
\* Largest minimum_block_time, in seconds.
MaxMinimumBlockTime == 1
\* Most transactions in the client's queue, and largest transaction_queue_size_trigger.
MaxQueue == 1
\* Latest start of the next phase, in seconds.
MaxPhase == 1
\* Most report_new_epoch and free_memory calls.
MaxCalls == 3
\* Most entries of a staking-epoch history a memorium is handed with.
MaxHistory == 2
\* Latest timestamp of a contribution.
MaxTime == 2
\* Width, in bits, of the number read from a contribution's random data.
WordBits == 1

\* The threads of the engine: the transport's message-handling thread, the
\* thread that processes a step of the BFT core (timer loop) and the host's
\* sealing thread.
NetThreads == {"net"}
StepThreads == {"timer"}
HostThreads == {"host"}
Threads == NetThreads \cup StepThreads \cup HostThreads
Blocks == 1..MaxBlock
Validators == 1..NumValidators
OurId == 1
Peers == Validators \ {OurId}
Epochs == 1..MaxEpoch

VARIABLES
    client,     \* HoneyBadgerBFT.client: TRUE once register_client ran
    head,       \* client.block_number(BlockId::Latest)
    sealing,    \* HoneyBadgerBFT.sealing: BlockNumber -> Sealing
    stepLock,   \* holder of the message_counter write lock, or "none"
    sent,       \* what the step just taken handed to send_consensus_message: <<block, recipient>>
    pc,         \* position of every thread
    loc,        \* locals of the call every thread is in
    ret,        \* what the step just taken returned to its caller: the value and the
                \* return statement taken (NoRet: the step returned nothing)
    everSig,    \* history: first signature a Complete session held, per block (0: none)
    message_counter,  \* HoneyBadgerBFT.message_counter
    random_numbers,   \* HoneyBadgerBFT.random_numbers: epoch -> random value (NoRandom: no entry)
    core,       \* the operations of the BFT core (hbbft_state) the step just taken called, in order
    netlog,     \* history: the BFT-core messages handed to the network, in order
    memorial,   \* HbbftMessageDispatcher.memorial: the HbbftMessageMemorium
    disk,       \* the audit directory: epoch directories and the files in them
    worker,     \* the dispatcher's worker thread: "running", "sleeping" or "dead"
    audit,      \* history: the entries the worker popped, in order, with their tracking id
    enqueued,   \* history: how many entries the producers handed to the dispatcher
    calls,      \* history: the report_new_epoch and free_memory calls, in order
    host,       \* what the engine reads from its parameters, the clock and the client,
                \* and the timer it registered last
    locks,      \* who holds each RwLock of the engine: lock -> set of <<thread, mode>>
    script,     \* per thread: the lock operations and calls its engine call still has to do
    order,      \* history: <<held, taken>> for every lock taken while another was held
    signer      \* HoneyBadgerBFT.signer: TRUE once set_signer ran

sealVars == <<client, head, sealing, stepLock, sent, pc, loc, ret, everSig>>
counterVars == <<message_counter, netlog, random_numbers>>
memoVars == <<memorial, disk, worker, audit, enqueued, calls>>
lockVars == <<locks, script, order>>
vars == <<client, head, sealing, stepLock, sent, pc, loc, ret, everSig,
          message_counter, netlog, random_numbers, core,
          memorial, disk, worker, audit, enqueued, calls, host,
          locks, script, order, signer>>

\* ------------------------------------------------- Sealing (sealing.rs)
Absent == [kind |-> "Absent", shares |-> {}, sig |-> 0]

\* Sealing::new: an Ongoing session without shares.
SealingNew == [kind |-> "Ongoing", shares |-> {}, sig |-> 0]

SealingComplete(sig) == [kind |-> "Complete", shares |-> {}, sig |-> sig]

\* Sealing::signature: the signature of a Complete session, 0 for none.
SealingSignature(s) == IF s.kind = "Complete" THEN s.sig ELSE 0

\* The hash of the block proposed at a height (header.bare_hash()); the model
\* names it by the height.
BlockHash(b) == b

\* A step of the threshold-signing session: new state, result, assembled
\* signature (0: none), whether the own share is to be broadcast.
SealStep(s, res, out, bcast) == [state |-> s, res |-> res, out |-> out, bcast |-> bcast]

\* The shares a signature takes: one in a network of a single validator.
SharesNeeded == IF host.validators = 1 THEN 1 ELSE Threshold

\* Adds a share to an Ongoing session; the signature is assembled at the
\* moment the number of distinct shares reaches the threshold.
AddShare(s, who, hash) ==
    LET shares == s.shares \cup {who}
        newly  == Cardinality(s.shares) < SharesNeeded /\ Cardinality(shares) >= SharesNeeded
    IN  [state |-> [s EXCEPT !.shares = shares], out |-> IF newly THEN hash ELSE 0]

\* Sealing::handle_message(sender, message): a Complete session ignores the
\* share; an invalid share is an error of the threshold-signing step.
SealingHandleMessage(s, sender, msg) ==
    IF s.kind = "Complete" THEN SealStep(s, "Ok", 0, FALSE)
    ELSE IF ~msg.valid THEN SealStep(s, "Err", 0, FALSE)
    ELSE LET a == AddShare(s, sender, msg.hash)
         IN  SealStep(a.state, "Ok", a.out, FALSE)

\* Sealing::sign(hash): the own share is produced once and broadcast.
SealingSign(s, hash) ==
    IF s.kind = "Complete" \/ OurId \in s.shares THEN SealStep(s, "Ok", 0, FALSE)
    ELSE LET a == AddShare(s, OurId, hash)
         IN  SealStep(a.state, "Ok", a.out, TRUE)

\* BTreeMap::entry(block_num).or_insert_with(|| self.new_sealing(..))
EntryOrInsert(m, b) == IF m[b].kind = "Absent" THEN SealingNew ELSE m[b]

SplitOffAbove(m, key) == [b \in Blocks |-> IF b > key THEN m[b] ELSE Absent]

\* BTreeMap::split_off(&key): the entries with a block number >= key.
SplitOff(m, key) == [b \in Blocks |-> IF b >= key THEN m[b] ELSE Absent]

\* HbbftState::verify_seal(client, signer, sig, header)
VerifySeal(sig, header) == sig # 0 /\ sig = header.hash

\* ----------------------------------------------------------- thread locals
\* op: the operation called; kind, sender, blk, hash, seal: its inputs; latest:
\* the chain head it read; out, bcast: the sealing step it holds; pending,
\* msg_idx: the messages of the BFT-core step left to number, and the number of
\* the one being dispatched.
\* output: the batches of the BFT-core step; timestamp, epoch: the arguments of
\* create_pending_block_at; then: where the caller of the function the thread
\* is in goes on ("idle": the thread returns to the host); txns: the number
\* of transactions decoded from the batch; thresholds, as
\* history: what transaction_queue_and_time_thresholds_reached gives at the
\* moment start_hbbft_epoch is called.
\* What the contracts and the key generation answer to do_keygen and to the
\* reward call of on_close_block, when nothing is asked.
NoKeygen == [pending |-> "none", synckeygen |-> "none", is_pending |-> "none",
             reward |-> "none"]

NoLoc == [op |-> "none", kind |-> "none", sender |-> FALSE, blk |-> 0, hash |-> 0,
          seal |-> <<>>, latest |-> 0, roster |-> FALSE, out |-> 0, bcast |-> FALSE,
          pending |-> 0, msg_idx |-> 0, output |-> <<>>, timestamp |-> 0, epoch |-> 0,
          then |-> "idle", thresholds |-> FALSE, txns |-> 0, messages |-> <<>>,
          refreshed |-> TRUE, keygen |-> NoKeygen]

NoRet == [val |-> "none", at |-> "none"]

\* random_numbers.get(epoch) == None
NoRandom == 0 - 1

\* HbbftMessageMemorium::new(config_blocks_to_keep_on_disk, ..)
HbbftMessageMemoriumNew(keep) ==
    [config_blocks_to_keep_on_disk |-> keep,
     message_tracking_id |-> 0,
     last_block_deleted_from_disk |-> 0,
     dispatched_messages |-> <<>>,
     dispatched_seals |-> <<>>,
     dispatched_seal_event_good |-> <<>>,
     dispatched_seal_event_bad |-> <<>>,
     staking_epoch_history |-> <<>>]

\* The audit directory before the worker wrote anything.
EmptyDisk == [dirs |-> {}, files |-> {}]

\* HbbftMessageDispatcher::new(num_blocks_to_keep_on_disk, ..): the memorium is
\* built and the worker thread started.
InitDispatcher(keep) ==
    /\ memorial = HbbftMessageMemoriumNew(keep)
    /\ disk = EmptyDisk
    /\ worker = "running"
    /\ audit = <<>>
    /\ enqueued = 0
    /\ calls = <<>>

\* const DEFAULT_DURATION: Duration = Duration::from_secs(1), in milliseconds.
DEFAULT_DURATION == 1000

\* Milliseconds per second (`as u128 * 1000`, Duration::from_secs).
Millis == 1000

\* block_header(BlockId::Latest) is None.
NoHeader == 0 - 1

\* start_time_of_next_phase_transition is Err.
NoPhase == 0 - 1

\* The client holds no pending block.
NoPending == [number |-> 0, txns |-> 0, timestamp |-> 0]

\* The engine's surroundings: the parameters minimum_block_time (seconds) and
\* transaction_queue_size_trigger, the clock (milliseconds), the timestamp of
\* the latest block header (seconds), the length of the transaction queue, the
\* start of the next phase (seconds), and the delay (milliseconds) and due time
\* of the timer registered last; TransitionHandler::initialize registers the
\* first timer with DEFAULT_DURATION.
\* The network has validators nodes; faults: the client may report that it is
\* syncing, refuse to build a pending block, and signing may fail; pending: the
\* client's pending block; chain, as history: the number of transactions of
\* every block imported after a seal; injected, as history: the transactions
\* handed to the miner; block_reward_contract_address: whether the parameter is set;
\* sync: what the client is (SyncStates), or "unobserved" where the answer of
\* is_syncing is left open.
HostNew(minimum_block_time, trigger, header, phase) ==
    [minimum_block_time |-> minimum_block_time,
     transaction_queue_size_trigger |-> trigger,
     now |-> 0, header |-> header, queued |-> 0, phase |-> phase,
     timer |-> DEFAULT_DURATION, due |-> DEFAULT_DURATION,
     validators |-> NumValidators, faults |-> TRUE, pending |-> NoPending,
     chain |-> <<>>, injected |-> 0, block_reward_contract_address |-> TRUE,
     sync |-> "unobserved"]

\* The RwLocks of HoneyBadgerBFT that guard the BFT core, the sealing map, the
\* message counter and the random numbers.
EngineLocks == {"hbbft_state", "sealing", "message_counter", "random_numbers"}

\* RwLock::new: nobody holds the lock.
NoLocks == [l \in EngineLocks |-> {}]

\* HoneyBadgerBFT::new: no client, no sealing session, message counter 0, no
\* thread inside the engine.
InitCore ==
    /\ client = FALSE
    /\ head = 0
    /\ sealing = [b \in Blocks |-> Absent]
    /\ stepLock = "none"
    /\ sent = {}
    /\ pc = [t \in Threads |-> "idle"]
    /\ loc = [t \in Threads |-> NoLoc]
    /\ ret = NoRet
    /\ everSig = [b \in Blocks |-> 0]
    /\ message_counter = 0
    /\ netlog = <<>>
    /\ random_numbers = [e \in Blocks |-> NoRandom]
    /\ core = <<>>
    /\ locks = NoLocks
    /\ script = [t \in Threads |-> <<>>]
    /\ order = {}
    /\ signer = FALSE

\* The engine in surroundings that stay as they are: a minimum block time of one
\* second, a trigger of one transaction, the genesis header, no next phase.
InitEngine == InitCore /\ host = HostNew(1, 1, 0, NoPhase)

InitSeal == InitEngine /\ InitDispatcher(0)

\* Thread t returns r from its call, at the return statement named at.
Return(t, r, at) ==
    /\ pc' = [pc EXCEPT ![t] = "idle"]
    /\ loc' = [loc EXCEPT ![t] = NoLoc]
    /\ ret' = [val |-> r, at |-> at]

\* Where a caller that the thread went on in (then) goes on next: after
\* join_hbbft_epoch, replay_cached_messages is over and the timer handler
\* registers its timer; every other function is called by the handler itself.
Following(stage) == IF stage = "join" THEN "reschedule" ELSE "idle"

\* Thread t returns r from the function it is in: to the host, or to the
\* caller inside the engine, which goes on at loc[t].then.
Resume(t, r, at) ==
    IF loc[t].then = "idle"
       THEN Return(t, r, at)
       ELSE /\ pc' = [pc EXCEPT ![t] = loc[t].then]
            /\ loc' = [loc EXCEPT ![t].then = Following(@), ![t].pending = 0,
                                  ![t].thresholds = FALSE]
            /\ ret' = NoRet

\* A step that returns nothing and sends nothing.
Silent == ret' = NoRet /\ sent' = {} /\ core' = <<>>

\* ------------------------------------------------------------ environment
\* Engine::register_client: the host wires the engine to its client, and the
\* BFT core is asked for its instance (update_honeybadger).
RegisterClient ==
    /\ ~client
    /\ client' = TRUE
    /\ ret' = NoRet
    /\ sent' = {}
    /\ core' = <<"update_honeybadger">>
    /\ UNCHANGED <<counterVars, memoVars, lockVars, signer, host, head, sealing, stepLock, pc, loc, everSig>>

\* The client imports a block: client.block_number(BlockId::Latest) grows by one.
ImportBlock ==
    /\ client
    /\ head + 1 < MaxBlock
    /\ head' = head + 1
    /\ Silent
    /\ UNCHANGED <<counterVars, memoVars, lockVars, signer, host, client, sealing, stepLock, pc, loc, everSig>>

\* ------------------------------------------------- handle_message, sealing
\* The transport calls handle_message(message, node_id) on thread t: the bytes
\* decode to a sealing message for a block or do not decode; node_id is given or not.
CallHandleMessage(t) ==
    /\ pc[t] = "idle"
    /\ \E kind \in {"seal", "malformed"}, sender \in BOOLEAN, b \in Blocks :
          loc' = [loc EXCEPT ![t] = [NoLoc EXCEPT !.op = "handle_message",
                      !.kind = kind, !.sender = sender,
                      !.blk = IF kind = "seal" /\ sender THEN b ELSE 0]]
    /\ pc' = [pc EXCEPT ![t] = "hm"]
    /\ Silent
    /\ UNCHANGED <<counterVars, memoVars, lockVars, signer, host, client, head, sealing, stepLock, everSig>>

ObsoleteBelow(latest, block_num) == latest > block_num

\* process_sealing_message: a message for a block at or below the latest block is obsolete.
Obsolete(latest, block_num) == latest >= block_num

DecodesAlways(kind) == TRUE

\* handle_message: serde_json::from_slice(message) gives one of the two
\* envelope variants, or fails.
Decodes(kind) == kind # "malformed"

CheckForEpochChangeAlways(hasClient) == <<"update_honeybadger">>

\* check_for_epoch_change, were the BFT core never asked.
CheckForEpochChangeSkipped(hasClient) == <<>>

\* check_for_epoch_change: with a client, hbbft_state.write().update_honeybadger;
\* without one it returns at once.
CheckForEpochChange(hasClient) == IF hasClient THEN <<"update_honeybadger">> ELSE <<>>

\* handle_message up to the call of the BFT core (process_hb_message) or to the
\* obsolescence check (process_sealing_message).
HandleMessage(t) ==
    /\ pc[t] = "hm"
    /\ LET l == loc[t] IN
       IF ~l.sender THEN Return(t, "UnexpectedMessage", "node_id")
       ELSE IF ~Decodes(l.kind) THEN Return(t, "MalformedMessage", "decode")
       ELSE IF ~client THEN Return(t, "RequiresClient", "client")
       ELSE IF l.kind = "hb"
               THEN /\ pc' = [pc EXCEPT ![t] = "hb_msg"]
                    /\ loc' = loc
                    /\ ret' = NoRet
       ELSE IF Obsolete(head, l.blk) THEN Return(t, "Ok", "obsolete")
       ELSE /\ pc' = [pc EXCEPT ![t] = "netinfo"]
            /\ loc' = loc
            /\ ret' = NoRet
    /\ sent' = {}
    /\ core' = CheckForEpochChange(client)
    /\ UNCHANGED <<counterVars, memoVars, lockVars, signer, host, client, head, sealing, stepLock, everSig>>

\* process_sealing_message: hbbft_state.write().network_info_for(client, signer,
\* block_num); the collaborator answers with a roster or with none.
NetworkInfoFor(t) ==
    /\ pc[t] = "netinfo"
    /\ \E roster \in BOOLEAN : loc' = [loc EXCEPT ![t].roster = roster]
    /\ pc' = [pc EXCEPT ![t] = "handle"]
    /\ ret' = NoRet
    /\ sent' = {}
    /\ core' = <<"network_info_for">>
    /\ UNCHANGED <<counterVars, memoVars, lockVars, signer, host, client, head, sealing, stepLock, everSig>>

RosterNeverMissing(l) == FALSE

\* process_sealing_message: the match on the answer of network_info_for.
RosterMissing(l) == ~l.roster

\* process_sealing_message: without a roster it fails; with one,
\* sealing.write().entry(block_num).or_insert_with(..).handle_message(&sender_id,
\* message), the message being a share of a peer, valid or not.
SealingHandle(t) ==
    /\ pc[t] = "handle"
    /\ IF RosterMissing(loc[t])
          THEN /\ Return(t, "UnexpectedMessage", "roster")
               /\ sealing' = sealing
          ELSE \E from \in Peers, valid \in BOOLEAN :
                 LET l  == loc[t]
                     st == SealingHandleMessage(EntryOrInsert(sealing, l.blk), from,
                                [valid |-> valid, hash |-> BlockHash(l.blk)])
                 IN  /\ sealing' = [sealing EXCEPT ![l.blk] = st.state]
                     /\ IF st.res = "Ok"
                           THEN /\ pc' = [pc EXCEPT ![t] = "sealstep"]
                                /\ loc' = [loc EXCEPT ![t].out = st.out, ![t].bcast = st.bcast]
                                /\ ret' = NoRet
                           ELSE Return(t, "Ok", "step_err")
    /\ sent' = {}
    /\ core' = <<>>
    /\ UNCHANGED <<counterVars, memoVars, lockVars, signer, host, client, head, stepLock, everSig>>

\* dispatch_messages for Target::AllExcept(set): every roster node but the local one
\* and those of the set.
Recipients(except) ==
    {n \in Validators : n <= host.validators /\ n # OurId /\ n \notin except}

SealStepKeep(m, b, out) == m

\* process_seal_step: a signature in the step's output replaces the session by
\* Complete(sig).
SealStepInsert(m, b, out) == IF out # 0 THEN [m EXCEPT ![b] = SealingComplete(out)] ELSE m

\* process_seal_step: the step's messages are dispatched, then its output is stored;
\* process_step, when it is the caller, returns and drops the message_counter lock.
ProcessSealStep(t) ==
    /\ pc[t] = "sealstep"
    /\ LET l == loc[t] IN
         /\ sent' = IF l.bcast THEN {<<l.blk, n>> : n \in Recipients({})} ELSE {}
         /\ core' = <<>>
         /\ sealing' = SealStepInsert(sealing, l.blk, l.out)
         /\ everSig' = IF l.out # 0 /\ everSig[l.blk] = 0
                           THEN [everSig EXCEPT ![l.blk] = l.out] ELSE everSig
         /\ Return(t, IF l.op = "handle_message" THEN "Ok" ELSE "none", "seal_step")
         /\ stepLock' = IF stepLock = t THEN "none" ELSE stepLock
    /\ UNCHANGED <<counterVars, memoVars, lockVars, signer, host, client, head>>

\* ------------------------------------------------ process_step, process_output
LockIgnored(holder) == TRUE

\* RwLock::write on message_counter: granted when no thread holds the lock.
LockFree(holder) == holder = "none"

\* The length, in bytes, random data must have to enter the random number.
RandomDataLen == 32

\* The numbers U256::from(&random_data[0..32]) can give.
Words == 0..(2^WordBits - 1)

\* A contribution's random data: its length, and the number its first
\* RandomDataLen bytes encode (its leading bytes when it is shorter).
RandomData == [len : {RandomDataLen - 1, RandomDataLen, RandomDataLen + 1}, word : Words]

\* Contribution { timestamp, random_data, .. }
Contribution == [timestamp : 1..MaxTime, random_data : RandomData]

\* Batch { epoch, contributions: BTreeMap<NodeId, Contribution> }
BatchesOf(proposers) ==
    [epoch : Blocks, contributions : UNION {[S -> Contribution] : S \in SUBSET proposers}]

\* step.output: no batch, one, or more than one.
OutputsOf(proposers) ==
    {<<>>} \cup {<<b>> : b \in BatchesOf(proposers)}
           \cup {<<b, b>> : b \in BatchesOf(proposers)}

\* BTreeMap::iter: the keys in ascending order.
RECURSIVE Ascending(_)
Ascending(S) ==
    IF S = {} THEN <<>>
    ELSE LET m == CHOOSE x \in S : \A y \in S : x <= y
         IN  <<m>> \o Ascending(S \ {m})

\* batch.contributions.iter().map(|(_, c)| c.timestamp)
Timestamps(contributions) ==
    LET keys == Ascending(DOMAIN contributions)
    IN  [i \in 1..Len(keys) |-> contributions[keys[i]].timestamp]

\* Insertion of x into the sorted sequence s, before the first larger element.
RECURSIVE Insert(_, _)
Insert(x, s) ==
    IF s = <<>> THEN <<x>>
    ELSE IF x < Head(s) THEN <<x>> \o s
    ELSE <<Head(s)>> \o Insert(x, Tail(s))

\* Itertools::sorted
RECURSIVE Sorted(_)
Sorted(s) == IF s = <<>> THEN <<>> ELSE Insert(Head(s), Sorted(Tail(s)))

\* No timestamp (Iterator::nth gave None).
NoTimestamp == 0

\* Iterator::nth(i), counting from 0.
Nth(s, i) == IF i < Len(s) THEN s[i + 1] ELSE NoTimestamp

MedianIndexLower(n) == IF n = 0 THEN 0 ELSE (n - 1) \div 2

MedianIndexLast(n) == IF n = 0 THEN 0 ELSE n - 1

\* timestamps.len() / 2
MedianIndex(n) == n \div 2

\* process_output: the median of all contributions' timestamps.
MedianTimestamp(contributions) ==
    LET timestamps == Sorted(Timestamps(contributions))
    IN  Nth(timestamps, MedianIndex(Len(timestamps)))

\* U256::bitxor
RECURSIVE BitXor(_, _)
BitXor(a, b) ==
    IF a = 0 /\ b = 0 THEN 0
    ELSE (((a % 2) + (b % 2)) % 2) + 2 * BitXor(a \div 2, b \div 2)

EnoughRandomDataAlways(random_data) == TRUE

\* c.random_data.len() >= 32
EnoughRandomData(random_data) == random_data.len >= RandomDataLen

\* The fold of process_output over the contributions whose keys are left.
RECURSIVE FoldRandom(_, _, _)
FoldRandom(contributions, keys, acc) ==
    IF keys = <<>> THEN acc
    ELSE LET c == contributions[Head(keys)]
         IN  FoldRandom(contributions, Tail(keys),
                        IF EnoughRandomData(c.random_data)
                           THEN BitXor(c.random_data.word, acc)
                           ELSE acc)

\* process_output: batch.contributions.iter().fold(U256::zero(), ..)
RandomNumber(contributions) ==
    FoldRandom(contributions, Ascending(DOMAIN contributions), 0)

NeverTooMany(output) == FALSE

\* output.len() > 1
TooManyOutputs(output) == Len(output) > 1

\* process_step for a step of the BFT core that carries no message: it takes
\* the message_counter write lock, dispatches nothing and hands the step's
\* output to process_output.
ProcessStepBatch(t, outputs) ==
    /\ pc[t] = "idle"
    /\ client
    /\ LockFree(stepLock)
    /\ stepLock' = t
    /\ \E output \in outputs :
          loc' = [loc EXCEPT ![t] = [NoLoc EXCEPT !.op = "process_output",
                                                  !.output = output]]
    /\ pc' = [pc EXCEPT ![t] = "output"]
    /\ Silent
    /\ UNCHANGED <<counterVars, memoVars, lockVars, signer, host, client, head, sealing, everSig>>

\* process_output up to the call of create_pending_block_at: more than one
\* batch panics (the unwinding drops the message_counter lock and ends the
\* thread); no batch, or a batch without a timestamp, returns; else the random
\* number of the batch is stored under its epoch.
ProcessOutput(t) ==
    /\ pc[t] = "output"
    /\ LET output == loc[t].output IN
       IF TooManyOutputs(output)
          THEN /\ pc' = [pc EXCEPT ![t] = "panicked"]
               /\ loc' = [loc EXCEPT ![t] = NoLoc]
               /\ ret' = [val |-> "panic", at |-> "process_output"]
               /\ stepLock' = IF stepLock = t THEN "none" ELSE stepLock
               /\ random_numbers' = random_numbers
       ELSE IF output = <<>>
          THEN /\ Return(t, "none", "no_batch")
               /\ stepLock' = IF stepLock = t THEN "none" ELSE stepLock
               /\ random_numbers' = random_numbers
       ELSE LET batch     == Head(output)
                timestamp == MedianTimestamp(batch.contributions)
            IN  IF timestamp = NoTimestamp
                   THEN /\ Return(t, "none", "no_timestamp")
                        /\ stepLock' = IF stepLock = t THEN "none" ELSE stepLock
                        /\ random_numbers' = random_numbers
                   ELSE /\ random_numbers' =
                              [random_numbers EXCEPT ![batch.epoch] =
                                   RandomNumber(batch.contributions)]
                        /\ pc' = [pc EXCEPT ![t] = "create"]
                        /\ loc' = [loc EXCEPT ![t].timestamp = timestamp,
                                              ![t].epoch = batch.epoch]
                        /\ ret' = NoRet
                        /\ stepLock' = stepLock
    /\ sent' = {}
    /\ core' = <<>>
    /\ UNCHANGED <<memoVars, lockVars, signer, host, client, head, sealing, everSig, message_counter, netlog>>

\* What the client is: a full client in sync, a full client in a major sync
\* (is_major_syncing), or no full client (as_full_client() == None).
SyncStates == {"synced", "major_syncing", "not_full"}

\* is_syncing ignoring what the client is.
IsSyncingNever(sync) == FALSE

\* is_syncing(client): a full client answers with is_major_syncing(); any
\* other client counts as syncing.
IsSyncing(sync) ==
    IF sync # "not_full" THEN sync = "major_syncing" ELSE TRUE

\* The answers of is_syncing(client): a client without faults is a full client
\* that is not syncing.
Syncing ==
    IF ~host.faults THEN {FALSE}
    ELSE IF host.sync = "unobserved" THEN BOOLEAN
    ELSE {IsSyncing(host.sync)}

\* Whether create_pending_block_at gives a header: a client without faults does.
Builds == IF host.faults THEN BOOLEAN ELSE {TRUE}

\* Whether Sealing::sign gives a step: without faults it does.
Signs == IF host.faults THEN BOOLEAN ELSE {TRUE}

\* The pending block the client holds after create_pending_block_at(batch_txns,
\* timestamp, batch.epoch); the model follows it in the network of a single
\* validator, where the client's import of the sealed block is modelled.
PendingBlock(h, number, txns, timestamp) ==
    IF h.validators = 1
       THEN [number |-> number, txns |-> txns, timestamp |-> timestamp]
       ELSE h.pending

\* process_output: client.create_pending_block_at(batch_txns, timestamp,
\* batch.epoch) gives the header of the pending block, which is built on the
\* latest block, or nothing; with nothing process_output gives up and
\* process_step returns.
CreatePendingBlock(t) ==
    /\ pc[t] = "create"
    /\ \E built \in Builds :
          IF built /\ head + 1 \in Blocks
             THEN /\ stepLock' = stepLock
                  /\ pc' = [pc EXCEPT ![t] = "sign"]
                  /\ loc' = [loc EXCEPT ![t].blk = head + 1,
                                        ![t].hash = BlockHash(head + 1)]
                  /\ host' = [host EXCEPT !.pending =
                                  PendingBlock(host, head + 1, loc[t].txns, loc[t].timestamp)]
                  /\ ret' = NoRet
             ELSE /\ stepLock' = IF stepLock = t THEN "none" ELSE stepLock
                  /\ host' = host
                  /\ Return(t, "none", "no_block")
    /\ sent' = {}
    /\ core' = <<>>
    /\ UNCHANGED <<counterVars, memoVars, lockVars, signer, client, head, sealing, everSig>>

\* The outputs of the sealing model: one batch for the block after the latest,
\* with no contribution or with the local node's.
SealOutputs ==
    {<<b>> : b \in {x \in BatchesOf({OurId}) :
                      /\ x.epoch = head + 1
                      /\ \A n \in DOMAIN x.contributions :
                            x.contributions[n] =
                               [timestamp |-> 1,
                                random_data |-> [len |-> RandomDataLen, word |-> 1]]}}

\* process_step for a step whose output is one batch.
ProcessStepOutput(t) == ProcessStepBatch(t, SealOutputs)

\* process_step for a step whose output is any number of batches with the
\* contributions of any validators.
ProcessStepOutputs(t) == ProcessStepBatch(t, OutputsOf(Validators))

\* process_output: sealing.write().entry(block_num).or_insert_with(..).sign(hash);
\* when signing fails the session stays as entry(..) left it, process_output
\* gives up and process_step returns.
SealingSignStep(t) ==
    /\ pc[t] = "sign"
    /\ \E signed \in Signs :
          LET l  == loc[t]
              s  == EntryOrInsert(sealing, l.blk)
              st == IF signed THEN SealingSign(s, l.hash) ELSE SealStep(s, "Err", 0, FALSE)
          IN  /\ sealing' = [sealing EXCEPT ![l.blk] = st.state]
              /\ IF st.res = "Ok"
                    THEN /\ pc' = [pc EXCEPT ![t] = "sealstep"]
                         /\ loc' = [loc EXCEPT ![t].out = st.out, ![t].bcast = st.bcast]
                         /\ ret' = NoRet
                         /\ stepLock' = stepLock
                    ELSE /\ Return(t, "none", "sign_err")
                         /\ stepLock' = IF stepLock = t THEN "none" ELSE stepLock
    /\ sent' = {}
    /\ core' = <<>>
    /\ UNCHANGED <<counterVars, memoVars, lockVars, signer, host, client, head, everSig>>

\* ------------------------------------------------------------ seals_internally
\* The host calls seals_internally on thread t.
CallSealsInternally(t) ==
    /\ pc[t] = "idle"
    /\ pc' = [pc EXCEPT ![t] = "si"]
    /\ loc' = [loc EXCEPT ![t] = [NoLoc EXCEPT !.op = "seals_internally"]]
    /\ Silent
    /\ UNCHANGED <<counterVars, memoVars, lockVars, signer, host, client, head, sealing, stepLock, everSig>>

\* seals_internally: client_arc() and client.block_number(BlockId::Latest).
SealsInternallyRead(t) ==
    /\ pc[t] = "si"
    /\ IF ~client THEN Return(t, "false", "client")
       ELSE /\ pc' = [pc EXCEPT ![t] = "si_lock"]
            /\ loc' = [loc EXCEPT ![t].latest = head]
            /\ ret' = NoRet
    /\ sent' = {}
    /\ core' = <<>>
    /\ UNCHANGED <<counterVars, memoVars, lockVars, signer, host, client, head, sealing, stepLock, everSig>>

\* seals_internally: whether the purged map holds a signature for next_block.
ReadyToSeal(m, next_block) ==
    next_block \in Blocks /\ SealingSignature(m[next_block]) # 0

\* seals_internally: under sealing.write(), *sealing = sealing.split_off(&next_block).
SealsInternallyLock(t) ==
    /\ pc[t] = "si_lock"
    /\ LET next_block == loc[t].latest + 1 IN
         /\ sealing' = SplitOff(sealing, next_block)
         /\ Return(t, IF ReadyToSeal(sealing', next_block) THEN "true" ELSE "false", "ready")
    /\ sent' = {}
    /\ core' = <<>>
    /\ UNCHANGED <<counterVars, memoVars, lockVars, signer, host, client, head, stepLock, everSig>>

\* --------------------------------------------------------------- generate_seal
\* The host calls generate_seal(block, parent) on thread t; the block's header
\* has a number and a hash, the hash of the block agreed for that number or another.
CallGenerateSeal(t) ==
    /\ pc[t] = "idle"
    /\ \E b \in Blocks, agreed \in BOOLEAN :
          loc' = [loc EXCEPT ![t] = [NoLoc EXCEPT !.op = "generate_seal", !.blk = b,
                      !.hash = IF agreed THEN BlockHash(b) ELSE 0]]
    /\ pc' = [pc EXCEPT ![t] = "gs"]
    /\ Silent
    /\ UNCHANGED <<counterVars, memoVars, lockVars, signer, host, client, head, sealing, stepLock, everSig>>

GenerateSealUnverified(hasClient, m, header) ==
    IF ~hasClient THEN "None"
    ELSE IF SealingSignature(m[header.number]) = 0 THEN "None"
    ELSE "Regular"

\* generate_seal: the seal it returns for the header, given the sealing map.
GenerateSealResult(hasClient, m, header) ==
    IF ~hasClient THEN "None"
    ELSE IF SealingSignature(m[header.number]) = 0 THEN "None"
    ELSE IF ~VerifySeal(SealingSignature(m[header.number]), header) THEN "None"
    ELSE "Regular"

\* generate_seal: under sealing.read(), the session's signature is looked up and
\* verified (hbbft_state.write().verify_seal).
GenerateSeal(t) ==
    /\ pc[t] = "gs"
    /\ Return(t, GenerateSealResult(client, sealing,
                     [number |-> loc[t].blk, hash |-> loc[t].hash]), "seal")
    /\ sent' = {}
    /\ core' = IF client /\ SealingSignature(sealing[loc[t].blk]) # 0
                  THEN <<"verify_seal">> ELSE <<>>
    /\ UNCHANGED <<counterVars, memoVars, lockVars, signer, host, client, head, sealing, stepLock, everSig>>

\* The sessions the map can hold for a block.
SealingStates(b) ==
    {Absent, SealingComplete(BlockHash(b))}
        \cup {[kind |-> "Ongoing", shares |-> S, sig |-> 0] : S \in SUBSET Validators}

SealingMaps ==
    {m \in [Blocks -> UNION {SealingStates(b) : b \in Blocks}] :
        \A b \in Blocks : m[b] \in SealingStates(b)}

\* generate_seal reads the engine and changes nothing: it is called on an engine
\* at rest, with any sessions in the map once a client is registered.
InitGenerate ==
    /\ client \in BOOLEAN
    /\ head = 0
    /\ sealing \in (IF client THEN SealingMaps ELSE {[b \in Blocks |-> Absent]})
    /\ everSig = [b \in Blocks |-> SealingSignature(sealing[b])]
    /\ stepLock = "none"
    /\ sent = {}
    /\ pc = [t \in Threads |-> "idle"]
    /\ loc = [t \in Threads |-> NoLoc]
    /\ ret = NoRet
    /\ message_counter = 0
    /\ netlog = <<>>
    /\ random_numbers = [e \in Blocks |-> NoRandom]
    /\ core = <<>>
    /\ host = HostNew(1, 1, 0, NoPhase)
    /\ locks = NoLocks
    /\ script = [t \in Threads |-> <<>>]
    /\ order = {}
    /\ signer = FALSE
    /\ InitDispatcher(0)

NextGenerate ==
    \E t \in HostThreads :
        \/ CallGenerateSeal(t)
        \/ GenerateSeal(t)

SpecGenerate == InitGenerate /\ [][NextGenerate]_vars

\* --------------------------------------------------------- verify_block_family
\* A field of a header's seal: the RLP of a signature, or bytes that do not
\* decode to one (JunkField).
JunkField == 0 - 1

\* rlp::decode::<RlpSig>: whether the bytes decode.
RlpDecodes(field) == field # JunkField

\* The seals a header numbered b can carry: up to MaxSealFields fields, each the
\* block's signature, another signature or junk.
Seals(b) ==
    UNION {[1..n -> {JunkField, BlockHash(b), BlockHash(b) + 1}] : n \in 0..MaxSealFields}

\* The numbers of the headers handed to verify_block_family: the blocks of the
\* model and one beyond them.
HeaderNumbers == 1..(MaxBlock + 1)

\* The host calls verify_block_family(header, parent) on thread t.
CallVerifyBlockFamily(t) ==
    /\ pc[t] = "idle"
    /\ \E b \in HeaderNumbers : \E seal \in Seals(b) :
          loc' = [loc EXCEPT ![t] = [NoLoc EXCEPT !.op = "verify_block_family",
                      !.blk = b, !.hash = BlockHash(b), !.seal = seal]]
    /\ pc' = [pc EXCEPT ![t] = "vbf"]
    /\ Silent
    /\ UNCHANGED <<counterVars, memoVars, lockVars, signer, host, client, head, sealing, stepLock, everSig>>

VerifyBlockFamilyAnyLength(hasClient, latest_block_nr, header) ==
    IF ~hasClient THEN "RequiresClient"
    ELSE IF header.number > latest_block_nr + 1 THEN "InvalidSeal"
    ELSE IF header.seal = <<>> THEN "InvalidSeal"
    ELSE IF ~RlpDecodes(Head(header.seal)) THEN "DecoderError"
    ELSE IF VerifySeal(Head(header.seal), header) THEN "Ok"
    ELSE "InvalidSeal"

\* verify_block_family: its result for the header, given the latest block number.
VerifyBlockFamilyResult(hasClient, latest_block_nr, header) ==
    IF ~hasClient THEN "RequiresClient"
    ELSE IF header.number > latest_block_nr + 1 THEN "InvalidSeal"
    ELSE IF Len(header.seal) # 1 THEN "InvalidSeal"
    ELSE IF ~RlpDecodes(Head(header.seal)) THEN "DecoderError"
    ELSE IF VerifySeal(Head(header.seal), header) THEN "Ok"
    ELSE "InvalidSeal"

VerifyBlockFamily(t) ==
    /\ pc[t] = "vbf"
    /\ Return(t, VerifyBlockFamilyResult(client, head,
                     [number |-> loc[t].blk, hash |-> loc[t].hash, seal |-> loc[t].seal]),
              "family")
    /\ sent' = {}
    /\ core' = IF /\ client
                  /\ loc[t].blk <= head + 1
                  /\ Len(loc[t].seal) = 1
                  /\ RlpDecodes(Head(loc[t].seal))
                  THEN <<"verify_seal">> ELSE <<>>
    /\ UNCHANGED <<counterVars, memoVars, lockVars, signer, host, client, head, sealing, stepLock, everSig>>

NextVerify ==
    \/ RegisterClient
    \/ ImportBlock
    \/ \E t \in HostThreads :
          \/ CallVerifyBlockFamily(t)
          \/ VerifyBlockFamily(t)

SpecVerify == InitSeal /\ [][NextVerify]_vars

\* ------------------------------------------------------------------ process_step
\* process_step(client, step, network_info): thread t takes the message_counter
\* write lock for a step of the BFT core that carries some messages.
ProcessStepLock(t) ==
    /\ pc[t] = "idle"
    /\ client
    /\ LockFree(stepLock)
    /\ \E n \in 0..MaxStepMessages :
          /\ message_counter + n <= MaxCounter
          /\ loc' = [loc EXCEPT ![t] = [NoLoc EXCEPT !.op = "process_step", !.pending = n]]
    /\ stepLock' = t
    /\ pc' = [pc EXCEPT ![t] = "number"]
    /\ Silent
    /\ UNCHANGED <<memoVars, lockVars, signer, host, client, head, sealing, everSig, message_counter, netlog, random_numbers>>

\* process_step: the map closure numbers the next message of the step,
\* *message_counter += 1, and tags it Message::HoneyBadger(*message_counter, ..).
NumberMessage(t) ==
    /\ pc[t] = "number"
    /\ loc[t].pending > 0
    /\ message_counter' = message_counter + 1
    /\ loc' = [loc EXCEPT ![t].pending = @ - 1, ![t].msg_idx = message_counter']
    /\ pc' = [pc EXCEPT ![t] = "dispatch"]
    /\ Silent
    /\ UNCHANGED <<memoVars, lockVars, signer, host, client, head, sealing, stepLock, everSig, netlog, random_numbers>>

\* dispatch_messages: the numbered message is serialized and handed to
\* send_consensus_message.
DispatchMessage(t) ==
    /\ pc[t] = "dispatch"
    /\ netlog' = Append(netlog, [idx |-> loc[t].msg_idx, by |-> t])
    /\ pc' = [pc EXCEPT ![t] = "number"]
    /\ loc' = loc
    /\ Silent
    /\ UNCHANGED <<memoVars, lockVars, signer, host, client, head, sealing, stepLock, everSig, message_counter, random_numbers>>

\* process_step: all messages are dispatched and the step has no batch;
\* process_output returns and the message_counter lock is dropped. Within
\* process_hb_message the thread goes on to join_hbbft_epoch, and within
\* join_hbbft_epoch handle_message returns Ok.
ProcessStepReturn(t) ==
    /\ pc[t] = "number"
    /\ loc[t].pending = 0
    /\ loc[t].output = <<>>
    /\ stepLock' = IF stepLock = t THEN "none" ELSE stepLock
    /\ IF loc[t].op = "process_hb_message"
          THEN /\ pc' = [pc EXCEPT ![t] = "join"]
               /\ loc' = [loc EXCEPT ![t].op = "join_hbbft_epoch"]
               /\ ret' = NoRet
          ELSE IF loc[t].op = "join_hbbft_epoch"
                  THEN Return(t, "Ok", "join")
                  ELSE Resume(t, "none", "process_step")
    /\ sent' = {}
    /\ core' = <<>>
    /\ UNCHANGED <<memoVars, lockVars, signer, host, client, head, sealing, everSig, message_counter, netlog, random_numbers>>

\* process_step: all messages are dispatched and the step has a batch, which
\* process_output takes under the message_counter lock.
ProcessStepToOutput(t) ==
    /\ pc[t] = "number"
    /\ loc[t].pending = 0
    /\ loc[t].output # <<>>
    /\ pc' = [pc EXCEPT ![t] = "output"]
    /\ loc' = loc
    /\ Silent
    /\ UNCHANGED <<counterVars, memoVars, lockVars, signer, host, client, head, sealing, stepLock, everSig>>

NextOutput ==
    \/ RegisterClient
    \/ \E t \in StepThreads :
          \/ ProcessStepOutputs(t)
          \/ ProcessOutput(t)
          \/ CreatePendingBlock(t)
          \/ SealingSignStep(t)
          \/ ProcessSealStep(t)

\* The steps of the BFT core that carry batches, processed on the timer thread.
SpecOutput == InitSeal /\ [][NextOutput]_vars

\* ------------------------------------------- handle_message, HoneyBadger
\* The transport calls handle_message(message, node_id) on thread t with bytes
\* that decode to Message::HoneyBadger(msg_idx, hb_msg); node_id is given or not.
CallHandleHbMessage(t) ==
    /\ pc[t] = "idle"
    /\ \E sender \in BOOLEAN :
          loc' = [loc EXCEPT ![t] = [NoLoc EXCEPT !.op = "handle_message",
                                                  !.kind = "hb", !.sender = sender]]
    /\ pc' = [pc EXCEPT ![t] = "hm"]
    /\ Silent
    /\ UNCHANGED <<counterVars, memoVars, lockVars, signer, host, client, head, sealing, stepLock, everSig>>

\* process_hb_message: hbbft_state.write().process_message(..) answers with a
\* step of some messages, or with nothing; without a step Ok is returned.
ProcessHbMessage(t) ==
    /\ pc[t] = "hb_msg"
    /\ \E some \in BOOLEAN, n \in 0..MaxStepMessages :
          IF some
             THEN /\ message_counter + n <= MaxCounter
                  /\ pc' = [pc EXCEPT ![t] = "step"]
                  /\ loc' = [loc EXCEPT ![t].op = "process_hb_message", ![t].pending = n]
                  /\ ret' = NoRet
             ELSE /\ n = 0
                  /\ Return(t, "Ok", "no_step")
    /\ sent' = {}
    /\ core' = <<"process_message">>
    /\ UNCHANGED <<counterVars, memoVars, lockVars, signer, host, client, head, sealing, stepLock, everSig>>

\* process_step called from process_hb_message or join_hbbft_epoch: the thread
\* takes the message_counter write lock.
ProcessStepEnter(t) ==
    /\ pc[t] = "step"
    /\ LockFree(stepLock)
    /\ stepLock' = t
    /\ pc' = [pc EXCEPT ![t] = "number"]
    /\ loc' = loc
    /\ Silent
    /\ UNCHANGED <<counterVars, memoVars, lockVars, signer, host, client, head, sealing, everSig>>

\* join_hbbft_epoch: while the client is syncing it returns Ok; else
\* hbbft_state.write().contribute_if_contribution_threshold_reached(..) answers
\* with a step, which is processed, or with nothing.
JoinHbbftEpoch(t) ==
    /\ pc[t] = "join"
    /\ \E syncing \in Syncing, some \in BOOLEAN, n \in 0..MaxStepMessages :
          IF syncing
             THEN /\ ~some /\ n = 0
                  /\ Resume(t, "Ok", "syncing")
                  /\ core' = <<>>
             ELSE /\ core' = <<"contribute_if_contribution_threshold_reached">>
                  /\ IF some
                        THEN /\ message_counter + n <= MaxCounter
                             /\ pc' = [pc EXCEPT ![t] = "step"]
                             /\ loc' = [loc EXCEPT ![t].pending = n]
                             /\ ret' = NoRet
                        ELSE /\ n = 0
                             /\ Resume(t, "Ok", "join")
    /\ sent' = {}
    /\ UNCHANGED <<counterVars, memoVars, lockVars, signer, host, client, head, sealing, stepLock, everSig>>

NextRouter ==
    \/ RegisterClient
    \/ ImportBlock
    \/ \E t \in NetThreads :
          \/ CallHandleMessage(t)
          \/ CallHandleHbMessage(t)
          \/ HandleMessage(t)
          \/ ProcessHbMessage(t)
          \/ ProcessStepEnter(t)
          \/ NumberMessage(t)
          \/ DispatchMessage(t)
          \/ ProcessStepReturn(t)
          \/ JoinHbbftEpoch(t)
          \/ NetworkInfoFor(t)
          \/ SealingHandle(t)
          \/ ProcessSealStep(t)

\* handle_message with both envelope variants, on the transport's thread.
SpecRouter == InitSeal /\ [][NextRouter]_vars

\* ------------------------------------------------- timer, transaction import
\* The clock readings of the model: the full seconds, one millisecond after
\* and one millisecond before each.
ClockOffsets == {0, 1, Millis - 1}
ClockValues == {(Millis * sec) + o : sec \in 0..MaxTime, o \in ClockOffsets}

\* unix_now_secs()
UnixNowSecs(h) == h.now \div Millis

\* unix_now_millis()
UnixNowMillis(h) == h.now

\* Time passes.
Advance ==
    /\ \E now \in ClockValues :
          /\ now > host.now
          /\ host' = [host EXCEPT !.now = now]
    /\ Silent
    /\ UNCHANGED <<counterVars, memoVars, lockVars, signer, client, head, sealing, stepLock, pc, loc, everSig>>

\* A transaction enters the client's queue.
QueueTransaction ==
    /\ client
    /\ host.queued < MaxQueue
    /\ host' = [host EXCEPT !.queued = @ + 1]
    /\ Silent
    /\ UNCHANGED <<counterVars, memoVars, lockVars, signer, client, head, sealing, stepLock, pc, loc, everSig>>

\* The client imports a block: the latest header has its timestamp, and the
\* transactions of the block have left the queue.
ImportHeader ==
    /\ client
    /\ \E timestamp \in 0..MaxTime, left \in 0..MaxQueue :
          /\ timestamp >= host.header
          /\ left <= host.queued
          /\ host' = [host EXCEPT !.header = timestamp, !.queued = left]
    /\ Silent
    /\ UNCHANGED <<counterVars, memoVars, lockVars, signer, client, head, sealing, stepLock, pc, loc, everSig>>

\* std::cmp::max and min on durations
DurationMax(a, b) == IF a >= b THEN a ELSE b
DurationMin(a, b) == IF a <= b THEN a ELSE b

\* TransitionHandler::duration_remaining_since_last_block, in milliseconds
DurationRemainingSinceLastBlock(h) ==
    IF h.header = NoHeader THEN DEFAULT_DURATION
    ELSE LET next_block_time == (h.header + h.minimum_block_time) * Millis
             now == UnixNowMillis(h)
         IN  IF now >= next_block_time THEN DEFAULT_DURATION
             ELSE next_block_time - now

\* TransitionHandler::timeout: the delay of the timer it registers, in
\* milliseconds: DEFAULT_DURATION without a client, else the remaining duration
\* raised to 1 ms and then cut to minimum_block_time seconds.
TimerDuration(hasClient, h) ==
    IF ~hasClient THEN DEFAULT_DURATION
    ELSE DurationMin(DurationMax(DurationRemainingSinceLastBlock(h), 1),
                     h.minimum_block_time * Millis)

ThresholdsReachedLater(h) ==
    /\ h.header # NoHeader
    /\ h.header + h.minimum_block_time < UnixNowSecs(h)
    /\ h.queued >= h.transaction_queue_size_trigger

\* transaction_queue_and_time_thresholds_reached(client)
ThresholdsReached(h) ==
    /\ h.header # NoHeader
    /\ h.header + h.minimum_block_time <= UnixNowSecs(h)
    /\ h.queued >= h.transaction_queue_size_trigger

\* TransitionHandler::timeout(io, ENGINE_TIMEOUT_TOKEN) on thread t, when the
\* timer registered last is due: client.update_sealing, then the engine's
\* start_hbbft_epoch_if_next_phase.
Timeout(t) ==
    /\ pc[t] = "idle"
    /\ host.now >= host.due
    /\ pc' = [pc EXCEPT ![t] = "phase"]
    /\ loc' = [loc EXCEPT ![t] = [NoLoc EXCEPT !.op = "timeout"]]
    /\ Silent
    /\ UNCHANGED <<counterVars, memoVars, lockVars, signer, host, client, head, sealing, stepLock, everSig>>

\* start_hbbft_epoch_if_next_phase: without a client, or without a start time
\* of the next phase, it returns; when the start time lies before the clock it
\* calls start_hbbft_epoch. The handler goes on with on_transactions_imported.
StartHbbftEpochIfNextPhase(t) ==
    /\ pc[t] = "phase"
    /\ IF client /\ host.phase # NoPhase /\ host.phase < UnixNowSecs(host)
          THEN /\ pc' = [pc EXCEPT ![t] = "start"]
               /\ loc' = [loc EXCEPT ![t].then = "imported",
                                     ![t].thresholds = ThresholdsReached(host)]
          ELSE /\ pc' = [pc EXCEPT ![t] = "imported"]
               /\ loc' = loc
    /\ Silent
    /\ UNCHANGED <<counterVars, memoVars, lockVars, signer, host, client, head, sealing, stepLock, everSig>>

\* try_send_contribution answered with nothing.
NoStep == [some |-> FALSE, n |-> 0, output |-> <<>>, txns |-> 0]

\* The batch a network of a single validator agrees on at once: the local
\* node's contribution for the next block, stamped with the clock.
SingleBatches ==
    {b \in BatchesOf({OurId}) :
        /\ b.epoch = head + 1
        /\ DOMAIN b.contributions = {OurId}
        /\ b.contributions[OurId].timestamp = UnixNowSecs(host)}

\* hbbft_state.write().try_send_contribution(client, signer): nothing, or a step
\* with some messages for the other validators; in a network of a single
\* validator a step with no message and the agreed batch, which holds the
\* queued transactions.
TrySendContribution ==
    IF host.validators = 1
       THEN IF SingleBatches = {} THEN {NoStep} ELSE
            {[some |-> TRUE, n |-> 0, output |-> <<b>>, txns |-> host.queued] :
                b \in SingleBatches}
       ELSE {NoStep} \cup
            {[some |-> TRUE, n |-> n, output |-> <<>>, txns |-> 0] : n \in 0..MaxStepMessages}

\* start_hbbft_epoch(client): while the client is syncing it returns; else
\* hbbft_state.write().try_send_contribution(..) answers with a step, which is
\* processed, or with nothing.
StartHbbftEpoch(t) ==
    /\ pc[t] = "start"
    /\ \E syncing \in Syncing, step \in TrySendContribution :
          IF syncing
             THEN /\ step = NoStep
                  /\ Resume(t, "none", "syncing")
                  /\ core' = <<>>
             ELSE /\ core' = <<"try_send_contribution">>
                  /\ IF step.some
                        THEN /\ message_counter + step.n <= MaxCounter
                             /\ pc' = [pc EXCEPT ![t] = "step"]
                             /\ loc' = [loc EXCEPT ![t].pending = step.n,
                                                   ![t].output = step.output,
                                                   ![t].txns = step.txns]
                             /\ ret' = NoRet
                        ELSE Resume(t, "none", "no_step")
    /\ sent' = {}
    /\ UNCHANGED <<counterVars, memoVars, lockVars, signer, host, client, head, sealing, stepLock, everSig>>

\* The miner calls on_transactions_imported on thread t.
CallOnTransactionsImported(t) ==
    /\ pc[t] = "idle"
    /\ pc' = [pc EXCEPT ![t] = "imported"]
    /\ loc' = [loc EXCEPT ![t] = [NoLoc EXCEPT !.op = "on_transactions_imported"]]
    /\ Silent
    /\ UNCHANGED <<counterVars, memoVars, lockVars, signer, host, client, head, sealing, stepLock, everSig>>

\* on_transactions_imported: check_for_epoch_change, and with a client whose
\* queue and clock reached the thresholds, start_hbbft_epoch. Within the timer
\* handler replay_cached_messages follows.
OnTransactionsImported(t) ==
    /\ pc[t] = "imported"
    /\ LET after == IF loc[t].op = "timeout" THEN "replay" ELSE "idle" IN
       IF client /\ ThresholdsReached(host)
          THEN /\ pc' = [pc EXCEPT ![t] = "start"]
               /\ loc' = [loc EXCEPT ![t].then = after, ![t].thresholds = TRUE]
               /\ ret' = NoRet
          ELSE IF after = "idle"
                  THEN Return(t, "none", "on_transactions_imported")
                  ELSE /\ pc' = [pc EXCEPT ![t] = after]
                       /\ loc' = loc
                       /\ ret' = NoRet
    /\ sent' = {}
    /\ core' = CheckForEpochChange(client)
    /\ UNCHANGED <<counterVars, memoVars, lockVars, signer, host, client, head, sealing, stepLock, everSig>>

\* replay_cached_messages: without a client it returns; else
\* hbbft_state.write().replay_cached_messages(..) answers with nothing, with a
\* failed step, or with a step, which is processed and followed by
\* join_hbbft_epoch.
ReplayCachedMessages(t) ==
    /\ pc[t] = "replay"
    /\ \E steps \in {"none", "err", "ok"}, n \in 0..MaxStepMessages :
          IF client /\ steps = "ok"
             THEN /\ message_counter + n <= MaxCounter
                  /\ pc' = [pc EXCEPT ![t] = "step"]
                  /\ loc' = [loc EXCEPT ![t].pending = n, ![t].then = "join"]
             ELSE /\ n = 0
                  /\ pc' = [pc EXCEPT ![t] = "reschedule"]
                  /\ loc' = loc
    /\ ret' = NoRet
    /\ sent' = {}
    /\ core' = IF client THEN <<"replay_cached_messages">> ELSE <<>>
    /\ UNCHANGED <<counterVars, memoVars, lockVars, signer, host, client, head, sealing, stepLock, everSig>>

\* timeout: the delay is computed and io.register_timer_once(ENGINE_TIMEOUT_TOKEN,
\* timer_duration) registers the next timer.
RegisterTimerOnce(t) ==
    /\ pc[t] = "reschedule"
    /\ LET timer_duration == TimerDuration(client, host) IN
          host' = [host EXCEPT !.timer = timer_duration,
                               !.due = host.now + timer_duration]
    /\ Return(t, "none", "timeout")
    /\ sent' = {}
    /\ core' = <<>>
    /\ UNCHANGED <<counterVars, memoVars, lockVars, signer, client, head, sealing, stepLock, everSig>>

\* The engine with any minimum block time and trigger, with or without a latest
\* header and a next phase.
InitTimer ==
    /\ InitCore
    /\ InitDispatcher(0)
    /\ \E minimum_block_time \in 0..MaxMinimumBlockTime, trigger \in 0..MaxQueue,
          header \in {NoHeader, 0}, phase \in {NoPhase} \cup (0..MaxPhase) :
          host = HostNew(minimum_block_time, trigger, header, phase)

NextTimer ==
    \/ RegisterClient
    \/ Advance
    \/ QueueTransaction
    \/ ImportHeader
    \/ \E t \in StepThreads :
          \/ Timeout(t)
          \/ StartHbbftEpochIfNextPhase(t)
          \/ ReplayCachedMessages(t)
          \/ JoinHbbftEpoch(t)
          \/ RegisterTimerOnce(t)
          \/ CallOnTransactionsImported(t)
          \/ OnTransactionsImported(t)
          \/ StartHbbftEpoch(t)
          \/ ProcessStepEnter(t)
          \/ NumberMessage(t)
          \/ DispatchMessage(t)
          \/ ProcessStepReturn(t)

\* The timer handler and the miner's notification, one after the other on one
\* thread, in changing surroundings.
SpecTimer == InitTimer /\ [][NextTimer]_vars

\* ------------------------------------------------------- a client in a sync
\* The client starts or ends a major sync.
SyncChange ==
    /\ host.sync \in {"synced", "major_syncing"}
    /\ host' = [host EXCEPT !.sync = IF @ = "synced" THEN "major_syncing" ELSE "synced"]
    /\ Silent
    /\ UNCHANGED <<counterVars, memoVars, lockVars, signer, client, head, sealing, stepLock, pc, loc, everSig>>

\* The engine with a client of any kind, in or out of sync, with or without
\* a next phase; the thresholds of on_transactions_imported are met by one
\* queued transaction.
InitSync ==
    /\ InitCore
    /\ InitDispatcher(0)
    /\ \E sync \in SyncStates, phase \in {NoPhase, 0} :
          host = [HostNew(0, 1, 0, phase) EXCEPT !.sync = sync]

NextSync ==
    \/ RegisterClient
    \/ Advance
    \/ QueueTransaction
    \/ SyncChange
    \/ \E t \in StepThreads :
          \/ Timeout(t)
          \/ StartHbbftEpochIfNextPhase(t)
          \/ ReplayCachedMessages(t)
          \/ RegisterTimerOnce(t)
          \/ CallOnTransactionsImported(t)
          \/ OnTransactionsImported(t)
          \/ StartHbbftEpoch(t)
          \/ CallHandleHbMessage(t)
          \/ HandleMessage(t)
          \/ ProcessHbMessage(t)
          \/ JoinHbbftEpoch(t)
          \/ ProcessStepEnter(t)
          \/ NumberMessage(t)
          \/ DispatchMessage(t)
          \/ ProcessStepReturn(t)

\* The timer handler, the miner's notification and handle_message, one call
\* after the other, while the client's sync comes and goes.
SpecSync == InitSync /\ [][NextSync]_vars

\* ------------------------------------------------ a network of one validator
\* The test's create_some_transaction: the miner takes a transaction into its
\* queue and calls on_transactions_imported on thread t; the call before has
\* returned and its block is imported.
InjectTransaction(t) ==
    /\ pc[t] = "idle"
    /\ client
    /\ host.injected = head
    /\ head < MaxBlock
    /\ host.queued < MaxQueue
    /\ host' = [host EXCEPT !.queued = @ + 1, !.injected = @ + 1]
    /\ pc' = [pc EXCEPT ![t] = "imported"]
    /\ loc' = [loc EXCEPT ![t] = [NoLoc EXCEPT !.op = "on_transactions_imported"]]
    /\ Silent
    /\ UNCHANGED <<counterVars, memoVars, lockVars, signer, client, head, sealing, stepLock, everSig>>

\* client.update_sealing(ForceUpdateSealing::No): when seals_internally answers
\* true and generate_seal gives a seal for the pending block, the client imports
\* the block: its transactions leave the queue and it is the latest block.
UpdateSealing ==
    /\ client
    /\ \A t \in Threads : pc[t] = "idle"
    /\ host.pending.number = head + 1
    /\ LET next_block == head + 1
           purged == SplitOff(sealing, next_block)
       IN  /\ ReadyToSeal(purged, next_block)
           /\ GenerateSealResult(client, purged,
                 [number |-> next_block, hash |-> BlockHash(next_block)]) = "Regular"
           /\ sealing' = purged
           /\ head' = next_block
           /\ host' = [host EXCEPT !.header = host.pending.timestamp,
                                   !.queued = @ - host.pending.txns,
                                   !.chain = Append(@, host.pending.txns),
                                   !.pending = NoPending]
    /\ Silent
    /\ UNCHANGED <<counterVars, memoVars, lockVars, signer, client, stepLock, pc, loc, everSig>>

\* The test's client: one validator, minimumBlockTime 0, a trigger that one
\* transaction reaches, the genesis header, the clock at one second, no faults.
InitSingle ==
    /\ InitCore
    /\ InitDispatcher(0)
    /\ \E trigger \in 0..1 :
          host = [HostNew(0, trigger, 0, NoPhase) EXCEPT
                     !.validators = 1, !.faults = FALSE, !.now = Millis]

EngineSingle(t) ==
    \/ OnTransactionsImported(t)
    \/ StartHbbftEpoch(t)
    \/ ProcessStepEnter(t)
    \/ ProcessStepToOutput(t)
    \/ ProcessOutput(t)
    \/ CreatePendingBlock(t)
    \/ SealingSignStep(t)
    \/ ProcessSealStep(t)

NextSingle ==
    \/ RegisterClient
    \/ UpdateSealing
    \/ \E t \in HostThreads :
          \/ InjectTransaction(t)
          \/ EngineSingle(t)

SpecSingle == InitSingle /\ [][NextSingle]_vars

\* A thread inside the engine goes on running, and the client acts on
\* update_sealing; nobody is obliged to register a client or to hand in a
\* transaction.
SpecSingleFair ==
    /\ SpecSingle
    /\ WF_vars(\E t \in HostThreads : EngineSingle(t))
    /\ WF_vars(UpdateSealing)

NextStep ==
    \/ RegisterClient
    \/ \E t \in NetThreads \cup StepThreads :
          \/ ProcessStepLock(t)
          \/ NumberMessage(t)
          \/ DispatchMessage(t)
          \/ ProcessStepReturn(t)

SpecStep == InitSeal /\ [][NextStep]_vars

\* The engine next to a dispatcher that keeps Retention blocks on disk.
InitMirror == InitEngine /\ InitDispatcher(Retention)

\* process_step and dispatch_messages, with the dispatcher that audits them.
SpecMirror == InitMirror /\ [][NextStep]_vars

\* ------------------------------------------------------- message memorium
engineVars == <<sealVars, counterVars, core, host, lockVars, signer>>

PushFront(q, e) == <<e>> \o q

\* VecDeque::push_back
PushBack(q, e) == Append(q, e)

PopBack(q) == [item |-> q[Len(q)], rest |-> SubSeq(q, 1, Len(q) - 1)]

\* VecDeque::pop_front on a queue that is not empty
PopFront(q) == [item |-> Head(q), rest |-> Tail(q)]

\* An entry handed to the dispatcher: its kind, its epoch and, as history, its
\* rank among all entries handed over.
Entry(kind, epoch) == [kind |-> kind, n |-> enqueued + 1, epoch |-> epoch]

\* HbbftMessageDispatcher::on_message_received(message)
OnMessageReceived ==
    /\ enqueued < MaxEnqueued
    /\ \E epoch \in Epochs :
          memorial' = IF memorial.config_blocks_to_keep_on_disk > 0
                         THEN [memorial EXCEPT !.dispatched_messages =
                                   PushBack(@, Entry("message", epoch))]
                         ELSE memorial
    /\ enqueued' = enqueued + 1
    /\ UNCHANGED <<engineVars, disk, worker, audit, calls>>

\* HbbftMessageDispatcher::on_sealing_message_received(message, epoch)
OnSealingMessageReceived ==
    /\ enqueued < MaxEnqueued
    /\ \E epoch \in Epochs :
          memorial' = IF memorial.config_blocks_to_keep_on_disk > 0
                         THEN [memorial EXCEPT !.dispatched_seals =
                                   PushBack(@, Entry("seal", epoch))]
                         ELSE memorial
    /\ enqueued' = enqueued + 1
    /\ UNCHANGED <<engineVars, disk, worker, audit, calls>>

\* HbbftMessageDispatcher::report_seal_good(node_id, block_num)
ReportSealGood ==
    /\ enqueued < MaxEnqueued
    /\ memorial' = [memorial EXCEPT !.dispatched_seal_event_good =
                        PushBack(@, Entry("good", 0))]
    /\ enqueued' = enqueued + 1
    /\ UNCHANGED <<engineVars, disk, worker, audit, calls>>

\* HbbftMessageDispatcher::report_seal_bad(node_id, block_num, reason)
ReportSealBad ==
    /\ enqueued < MaxEnqueued
    /\ memorial' = [memorial EXCEPT !.dispatched_seal_event_bad =
                        PushBack(@, Entry("bad", 0))]
    /\ enqueued' = enqueued + 1
    /\ UNCHANGED <<engineVars, disk, worker, audit, calls>>

\* What the file system does to one call of on_message_string_received, and
\* whether serde_json::to_string gave the string it is called with.
IoOutcomes == {"ok", "ser_fails", "mkdir_fails", "create_fails", "list_fails", "rm_fails"}

\* An entry of the worker's history: the item popped, the tracking id it got
\* (0: none), the deletion watermark it met, whether an I/O operation failed on
\* it, whether its file was created and the directories its cleanup deleted.
Popped(entry, id, last, failed, wrote, deleted) ==
    [kind |-> entry.kind, n |-> entry.n, id |-> id, epoch |-> entry.epoch,
     last |-> last, failed |-> failed, wrote |-> wrote, deleted |-> deleted]

PickedUpWhenKept(keep, epoch, last) == keep > 0

\* self.config_blocks_to_keep_on_disk > 0 && epoch > self.last_block_deleted_from_disk
PickedUp(keep, epoch, last) == keep > 0 /\ epoch > last

CleanupNever(keep, epoch, last) == FALSE

\* epoch > self.config_blocks_to_keep_on_disk
\*    && epoch > self.last_block_deleted_from_disk + self.config_blocks_to_keep_on_disk
CleanupDue(keep, epoch, last) == epoch > keep /\ epoch > last + keep

ExpiredUpTo(dir_epoch, epoch, keep) == dir_epoch <= epoch

\* dir_epoch <= epoch - self.config_blocks_to_keep_on_disk
Expired(dir_epoch, epoch, keep) == dir_epoch <= epoch - keep

\* HbbftMessageMemorium::on_message_string_received(message_json, epoch), on the
\* worker's view s of the memorium, the disk and its history; the audit root
\* is the directory the cleanup lists.
OnMessageStringReceived(s, entry, io) ==
    LET id    == s.memorial.message_tracking_id + 1
        keep  == s.memorial.config_blocks_to_keep_on_disk
        last  == s.memorial.last_block_deleted_from_disk
        epoch == entry.epoch
        s1    == [s EXCEPT !.memorial.message_tracking_id = id]
        s2    == [s1 EXCEPT !.disk.dirs = @ \cup {epoch}]
        s3    == [s2 EXCEPT !.disk.files = @ \cup {<<epoch, id>>}]
        old   == {d \in s3.disk.dirs : Expired(d, epoch, keep)}
        gone  == IF io = "rm_fails" THEN {} ELSE old
        Log(st, failed, wrote, deleted) ==
            [st EXCEPT !.audit = Append(@, Popped(entry, id, last, failed, wrote, deleted))]
    IN  IF ~PickedUp(keep, epoch, last) THEN Log(s1, FALSE, FALSE, {})
        ELSE IF io = "mkdir_fails" THEN Log(s1, TRUE, FALSE, {})
        ELSE IF io = "create_fails" THEN Log(s2, TRUE, FALSE, {})
        ELSE IF ~CleanupDue(keep, epoch, last) THEN Log(s3, FALSE, TRUE, {})
        ELSE IF io = "list_fails" THEN Log([s3 EXCEPT !.panicked = TRUE], TRUE, TRUE, {})
        ELSE Log([s3 EXCEPT !.disk.dirs = @ \ gone,
                            !.disk.files = {f \in @ : f[1] \notin gone},
                            !.memorial.last_block_deleted_from_disk = epoch],
                 gone # old, TRUE, gone)

\* work_message: one entry of queue q, if any, is popped, serialized and handed
\* to on_message_string_received.
WorkQueue(s, q, io) ==
    IF s.panicked \/ s.memorial[q] = <<>> THEN s
    ELSE LET p  == PopFront(s.memorial[q])
             s1 == [s EXCEPT !.memorial[q] = p.rest]
         IN  IF io = "ser_fails"
                THEN [s1 EXCEPT !.audit = Append(@,
                         Popped(p.item, 0, s.memorial.last_block_deleted_from_disk,
                                TRUE, FALSE, {}))]
                ELSE OnMessageStringReceived(s1, p.item, io)

\* work_message: one good seal event, if any, is popped and dropped.
WorkGoodEvent(s) ==
    IF s.panicked \/ s.memorial.dispatched_seal_event_good = <<>> THEN s
    ELSE LET p == PopFront(s.memorial.dispatched_seal_event_good)
         IN  [s EXCEPT !.memorial.dispatched_seal_event_good = p.rest,
                       !.audit = Append(@,
                           Popped(p.item, 0, s.memorial.last_block_deleted_from_disk,
                                  FALSE, FALSE, {}))]

\* The number of items of the worker's history on which an I/O operation failed.
Faults(history) == Cardinality({i \in 1..Len(history) : history[i].failed})

\* work_message: had_worked is set by a popped consensus message and by a
\* popped sealing message, by nothing else.
HadWorked(m) == m.dispatched_messages # <<>> \/ m.dispatched_seals # <<>>

\* work_message: what it returns (`return false`), whatever had_worked holds.
WorkResult(had_worked) == FALSE

\* The I/O outcomes that can meet the item of queue q: none without an item.
IoFor(q) == IF memorial[q] = <<>> THEN {"ok"} ELSE IoOutcomes

\* One iteration of the worker thread: memorial.write().work_message().
WorkMessage ==
    /\ worker = "running"
    /\ \E io1 \in IoFor("dispatched_messages"), io2 \in IoFor("dispatched_seals") :
          LET s0 == [memorial |-> memorial, disk |-> disk, audit |-> audit,
                     panicked |-> FALSE]
              s1 == WorkQueue(s0, "dispatched_messages", io1)
              s2 == WorkQueue(s1, "dispatched_seals", io2)
              s3 == WorkGoodEvent(s2)
          IN  /\ Faults(s3.audit) <= MaxFaults
              /\ memorial' = s3.memorial
              /\ disk' = s3.disk
              /\ audit' = s3.audit
              /\ worker' = IF s3.panicked THEN "dead"
                           ELSE IF WorkResult(HadWorked(memorial)) THEN "running"
                           ELSE "sleeping"
    /\ UNCHANGED <<engineVars, enqueued, calls>>

\* ensure_worker_thread: thread::sleep(Duration::from_millis(250)) is over.
Wake ==
    /\ worker = "sleeping"
    /\ worker' = "running"
    /\ UNCHANGED <<engineVars, memorial, disk, audit, enqueued, calls>>

\* A dispatcher built with retention 0 or with the model's nonzero retention.
InitMemo ==
    /\ InitEngine
    /\ \E keep \in {0, Retention} : InitDispatcher(keep)

NextMemo ==
    \/ OnMessageReceived
    \/ OnSealingMessageReceived
    \/ ReportSealGood
    \/ ReportSealBad
    \/ WorkMessage
    \/ Wake

SpecMemo == InitMemo /\ [][NextMemo]_vars

\* The worker thread is scheduled again and again, and its sleep ends: an
\* iteration that can be taken is taken, a sleeping worker wakes. The callers
\* of the dispatcher are under no obligation.
SpecMemoFair == SpecMemo /\ WF_vars(WorkMessage) /\ WF_vars(Wake)

\* ------------------------------------------------- staking-epoch history
\* StakingEpochHistory::new(staking_epoch, start_block, end_block)
StakingEpochHistoryNew(staking_epoch, start_block, end_block) ==
    [staking_epoch |-> staking_epoch,
     staking_epoch_start_block |-> start_block,
     staking_epoch_end_block |-> end_block,
     node_staking_epoch_histories |-> <<>>]

\* staking_epoch_history.binary_search_by_key(&staking_epoch, |x| x.staking_epoch)
\* is Ok: on a history sorted by epoch id, some entry has the id.
BinarySearchOk(history, staking_epoch) ==
    \E i \in 1..Len(history) : history[i].staking_epoch = staking_epoch

\* HbbftMessageMemorium::report_new_epoch: the history it leaves. Both branches
\* only log.
ReportedHistory(history, staking_epoch, start_block) ==
    IF BinarySearchOk(history, staking_epoch) THEN history ELSE history

\* No entry (get_staking_epoch_history gave None).
NoHistory == StakingEpochHistoryNew(0, 0, 0)

\* HbbftMessageMemorium::get_staking_epoch_history(block_num): the first entry
\* that started before the block and is open or ends at or after it.
GetStakingEpochHistory(history, block_num) ==
    LET hits == {i \in 1..Len(history) :
                    /\ block_num > history[i].staking_epoch_start_block
                    /\ \/ history[i].staking_epoch_end_block = 0
                       \/ block_num <= history[i].staking_epoch_end_block}
    IN  IF hits = {} THEN NoHistory
        ELSE history[CHOOSE i \in hits : \A j \in hits : i <= j]

\* The start blocks of the reported epochs and the blocks handed to free_memory.
StartBlocks == 0..MaxBlock
CurrentBlocks == 1..(MaxBlock + Retention + 1)

\* HbbftMessageDispatcher::report_new_epoch(staking_epoch, staking_epoch_start_block)
ReportNewEpoch ==
    /\ Len(calls) < MaxCalls
    /\ \E staking_epoch \in Epochs, start_block \in StartBlocks :
          /\ memorial' = [memorial EXCEPT !.staking_epoch_history =
                              ReportedHistory(@, staking_epoch, start_block)]
          /\ calls' = Append(calls, [op |-> "report_new_epoch", a |-> staking_epoch,
                                     b |-> start_block,
                                     before |-> memorial.staking_epoch_history])
    /\ UNCHANGED <<engineVars, disk, worker, audit, enqueued>>

\* HbbftMessageMemorium::free_memory(_current_block): the history it leaves.
FreedHistory(history, current_block) == history

\* HbbftMessageDispatcher::free_memory(_current_block)
FreeMemory ==
    /\ Len(calls) < MaxCalls
    /\ \E current_block \in CurrentBlocks :
          /\ memorial' = [memorial EXCEPT !.staking_epoch_history =
                              FreedHistory(@, current_block)]
          /\ calls' = Append(calls, [op |-> "free_memory", a |-> current_block, b |-> 0,
                                     before |-> memorial.staking_epoch_history])
    /\ UNCHANGED <<engineVars, disk, worker, audit, enqueued>>

NextEpochs ==
    \/ ReportNewEpoch
    \/ FreeMemory

\* The staking-epoch reports and free_memory on a dispatcher as it is built.
SpecEpochs == InitMemo /\ [][NextEpochs]_vars

\* The staking-epoch entries of the model: an id, a start block and an end
\* block that is 0 (open) or not before the start.
HistoryEntries ==
    {x \in [staking_epoch : Epochs, staking_epoch_start_block : StartBlocks,
             staking_epoch_end_block : StartBlocks,
             node_staking_epoch_histories : {<<>>}] :
        \/ x.staking_epoch_end_block = 0
        \/ x.staking_epoch_end_block >= x.staking_epoch_start_block}

\* The histories of the model: at most MaxHistory entries, ascending by id.
Histories ==
    {h \in UNION {[1..n -> HistoryEntries] : n \in 0..MaxHistory} :
        \A i \in 1..(Len(h) - 1) : h[i].staking_epoch < h[i + 1].staking_epoch}

\* A memorium, built with the model's nonzero retention, that holds a
\* staking-epoch history.
InitFree ==
    /\ InitEngine
    /\ disk = EmptyDisk
    /\ worker = "running"
    /\ audit = <<>>
    /\ enqueued = 0
    /\ calls = <<>>
    /\ \E h \in Histories :
          memorial = [HbbftMessageMemoriumNew(Retention) EXCEPT !.staking_epoch_history = h]

NextFree == FreeMemory

\* free_memory on a memorium that holds a staking-epoch history.
SpecFree == InitFree /\ [][NextFree]_vars

\* HbbftMessageMemorium::on_good_seal(seal): whether the block of the seal
\* falls into an epoch of the history.
OnGoodSealResult(history, block_num) ==
    GetStakingEpochHistory(history, block_num) # NoHistory

\* on_good_seal is applied to a seal event for a block; as history, the call
\* keeps the entry get_staking_epoch_history gave (NoHistory: none).
OnGoodSeal ==
    /\ Len(calls) < MaxCalls
    /\ \E block_num \in 0..(MaxBlock + 1) :
          calls' = Append(calls, [op |-> "on_good_seal", a |-> block_num,
                       b |-> GetStakingEpochHistory(memorial.staking_epoch_history, block_num),
                       before |-> memorial.staking_epoch_history])
    /\ ret' = [val |-> IF OnGoodSealResult(memorial.staking_epoch_history,
                                           calls'[Len(calls')].a)
                          THEN "true" ELSE "false",
               at |-> "on_good_seal"]
    /\ UNCHANGED <<client, head, sealing, stepLock, sent, pc, loc, everSig, counterVars,
                   core, host, lockVars, signer, memorial, disk, worker, audit, enqueued>>

NextLookup == OnGoodSeal

\* on_good_seal on a memorium that holds a staking-epoch history.
SpecLookup == InitFree /\ [][NextLookup]_vars

\* ------------------------------------------------ node staking-epoch history
\* NodeStakingEpochHistory::new(staking_epoch, staking_epoch_start_block, node_id)
NodeStakingEpochHistoryNew(staking_epoch, start_block, node_id) ==
    [staking_epoch |-> staking_epoch,
     staking_epoch_start_block |-> start_block,
     node_id |-> node_id,
     last_good_sealing_message |-> 0,
     last_late_sealing_message |-> 0,
     last_error_sealing_message |-> 0,
     sealing_blocks_good |-> <<>>,
     sealing_blocks_late |-> <<>>,
     sealing_blocks_bad |-> <<>>]

\* NodeStakingEpochHistory::add_good_seal_event(event)
AddGoodSealEvent(h, block_num) ==
    [h EXCEPT !.last_good_sealing_message =
                  IF block_num > h.last_good_sealing_message THEN block_num ELSE @,
              !.sealing_blocks_good = Append(@, block_num)]

\* NodeStakingEpochHistory::add_bad_seal_event(event): the block number is
\* compared with last_error_sealing_message; what is written is
\* last_good_sealing_message, and the block is pushed to sealing_blocks_good.
AddBadSealEvent(h, block_num) ==
    [h EXCEPT !.last_good_sealing_message =
                  IF block_num > h.last_error_sealing_message THEN block_num ELSE @,
              !.sealing_blocks_good = Append(@, block_num)]

\* NodeStakingEpochHistory::get_total_good_sealing_messages
GetTotalGoodSealingMessages(h) == Len(h.sealing_blocks_good)

\* NodeStakingEpochHistory::get_total_late_sealing_messages
GetTotalLateSealingMessages(h) == Len(h.sealing_blocks_late)

\* NodeStakingEpochHistory::get_total_error_sealing_messages
GetTotalErrorSealingMessages(h) == Len(h.sealing_blocks_bad)

\* NodeStakingEpochHistory::get_total_sealing_messages
GetTotalSealingMessages(h) ==
    GetTotalGoodSealingMessages(h) + GetTotalLateSealingMessages(h)
        + GetTotalErrorSealingMessages(h)

\* The node history of the model: the first node of the first staking epoch.
NodeHistory == memorial.staking_epoch_history[1].node_staking_epoch_histories[1]

\* A good or a bad seal event for a block is added to the node history.
AddSealEvent ==
    /\ Len(calls) < MaxCalls
    /\ \E good \in BOOLEAN, block_num \in 0..MaxBlock :
          /\ memorial' = [memorial EXCEPT
                 !.staking_epoch_history[1].node_staking_epoch_histories[1] =
                     IF good THEN AddGoodSealEvent(@, block_num)
                             ELSE AddBadSealEvent(@, block_num)]
          /\ calls' = Append(calls,
                 [op |-> IF good THEN "add_good_seal_event" ELSE "add_bad_seal_event",
                  a |-> block_num, b |-> 0, before |-> memorial.staking_epoch_history])
    /\ UNCHANGED <<engineVars, disk, worker, audit, enqueued>>

\* A memorium whose first staking epoch, from block 0 and open, or from a later
\* block, holds the history of one node.
InitNode ==
    /\ InitEngine
    /\ disk = EmptyDisk
    /\ worker = "running"
    /\ audit = <<>>
    /\ enqueued = 0
    /\ calls = <<>>
    /\ \E start_block \in StartBlocks, node_id \in Validators :
          memorial = [HbbftMessageMemoriumNew(Retention) EXCEPT !.staking_epoch_history =
              <<[StakingEpochHistoryNew(1, start_block, 0) EXCEPT
                    !.node_staking_epoch_histories =
                        <<NodeStakingEpochHistoryNew(1, start_block, node_id)>>]>>]

NextNode == AddSealEvent

\* Seal events added, in any order, to the history of a node.
SpecNode == InitNode /\ [][NextNode]_vars

\* ------------------------------------------------------------ lock order
\* What a thread does to the engine's locks: it takes a lock in a mode, drops
\* it, or calls a function that does more of the same.
Acquire(l, mode) == [do |-> "acquire", on |-> l, mode |-> mode]

Release(l) == [do |-> "release", on |-> l, mode |-> "none"]

Call(f) == [do |-> "call", on |-> f, mode |-> "none"]

\* self.<lock>.write().<method>(..) as one statement: the guard is a temporary,
\* dropped when the statement ends.
Statement(l) == <<Acquire(l, "write"), Release(l)>>

\* A function that takes no lock on the path it runs.
Skip == {<<>>}

\* check_for_epoch_change, with a client: hbbft_state.write().update_honeybadger(..).
CheckForEpochChangeBody == {Statement("hbbft_state")}

\* process_seal_step: without a signature nothing is locked; with one,
\* sealing.write().insert(..) and then client.update_sealing(..).
ProcessSealStepBody ==
    Skip \cup {Statement("sealing") \o <<Call("update_sealing")>>}

\* process_output: no batch; or random_numbers.write().insert(..), then
\* create_pending_block_at and, when it gives a header, sealing.write()..sign(hash)
\* in the scrutinee of the match, dropped before process_seal_step.
ProcessOutputBody ==
    Skip \cup
    {Statement("random_numbers") \o <<Call("create_pending_block_at")>> \o rest :
        rest \in Skip \cup {Statement("sealing"),
                            Statement("sealing") \o <<Call("process_seal_step")>>}}

\* process_step: let mut message_counter = self.message_counter.write() lives
\* until the function returns, over dispatch_messages and process_output.
ProcessStepBody ==
    {<<Acquire("message_counter", "write"), Call("process_output"),
       Release("message_counter")>>}

\* join_hbbft_epoch: syncing; or hbbft_state.write()
\* .contribute_if_contribution_threshold_reached(..) and, with a step, process_step.
JoinHbbftEpochBody ==
    Skip \cup {Statement("hbbft_state"),
               Statement("hbbft_state") \o <<Call("process_step")>>}

\* start_hbbft_epoch: syncing; or hbbft_state.write().try_send_contribution(..)
\* and, with a step, process_step.
StartHbbftEpochBody ==
    Skip \cup {Statement("hbbft_state"),
               Statement("hbbft_state") \o <<Call("process_step")>>}

\* process_hb_message, were the guard of hbbft_state bound to a variable that
\* lives until the function returns.
ProcessHbMessageBodyHeld ==
    {Statement("hbbft_state"),
     <<Acquire("hbbft_state", "write"), Call("process_step"),
       Call("join_hbbft_epoch"), Release("hbbft_state")>>}

\* process_hb_message: hbbft_state.write().process_message(..) and, with a
\* step, process_step and join_hbbft_epoch.
ProcessHbMessageBody ==
    {Statement("hbbft_state"),
     Statement("hbbft_state") \o <<Call("process_step"), Call("join_hbbft_epoch")>>}

\* process_sealing_message: obsolete; or hbbft_state.write().network_info_for(..),
\* then sealing.write()..handle_message(..) and, with a step, process_seal_step.
ProcessSealingMessageBody ==
    Skip \cup {Statement("hbbft_state"),
               Statement("hbbft_state") \o Statement("sealing"),
               Statement("hbbft_state") \o Statement("sealing")
                   \o <<Call("process_seal_step")>>}

\* handle_message: check_for_epoch_change, then nothing (no sender, malformed),
\* process_hb_message or process_sealing_message.
HandleMessageBody ==
    {<<Call("check_for_epoch_change")>> \o rest :
        rest \in Skip \cup {<<Call("process_hb_message")>>,
                            <<Call("process_sealing_message")>>}}

\* on_transactions_imported: check_for_epoch_change and, with the thresholds
\* reached, start_hbbft_epoch.
OnTransactionsImportedBody ==
    {<<Call("check_for_epoch_change")>>,
     <<Call("check_for_epoch_change"), Call("start_hbbft_epoch")>>}

\* start_hbbft_epoch_if_next_phase
StartHbbftEpochIfNextPhaseBody == Skip \cup {<<Call("start_hbbft_epoch")>>}

\* replay_cached_messages: hbbft_state.write().replay_cached_messages(..), then
\* process_step for a step it gave and join_hbbft_epoch.
ReplayCachedMessagesBody ==
    {Statement("hbbft_state"),
     Statement("hbbft_state") \o <<Call("process_step"), Call("join_hbbft_epoch")>>}

\* TransitionHandler::timeout
TimeoutBody ==
    {<<Call("update_sealing"), Call("start_hbbft_epoch_if_next_phase"),
       Call("on_transactions_imported"), Call("replay_cached_messages")>>}

\* on_close_block: check_for_epoch_change; do_keygen touches none of these locks.
OnCloseBlockBody == {<<Call("check_for_epoch_change")>>}

\* seals_internally: let mut sealing = self.sealing.write(), held until it returns.
SealsInternallyBody == {Statement("sealing")}

\* generate_seal: let sealing = self.sealing.read() lives until the function
\* returns; with a signature, hbbft_state.write().verify_seal(..) under it.
GenerateSealBody ==
    {<<Acquire("sealing", "read"), Release("sealing")>>,
     <<Acquire("sealing", "read")>> \o Statement("hbbft_state")
         \o <<Release("sealing")>>}

\* verify_block_family: an early Err; or hbbft_state.write().verify_seal(..).
VerifyBlockFamilyBody == Skip \cup {Statement("hbbft_state")}

\* client.update_sealing: the miner has nothing to do; or it prepares a block
\* (on_close_block), asks seals_internally and, told true, generate_seal.
UpdateSealingBody ==
    Skip \cup {<<Call("on_close_block"), Call("seals_internally")>>,
               <<Call("on_close_block"), Call("seals_internally"),
                 Call("generate_seal")>>}

\* client.create_pending_block_at: no block; or a block that it closes
\* (on_close_block).
CreatePendingBlockAtBody == Skip \cup {<<Call("on_close_block")>>}

\* The paths of a function, as the lock operations and calls on each.
Body(f) ==
    CASE f = "check_for_epoch_change" -> CheckForEpochChangeBody
      [] f = "process_seal_step" -> ProcessSealStepBody
      [] f = "process_output" -> ProcessOutputBody
      [] f = "process_step" -> ProcessStepBody
      [] f = "join_hbbft_epoch" -> JoinHbbftEpochBody
      [] f = "start_hbbft_epoch" -> StartHbbftEpochBody
      [] f = "process_hb_message" -> ProcessHbMessageBody
      [] f = "process_sealing_message" -> ProcessSealingMessageBody
      [] f = "handle_message" -> HandleMessageBody
      [] f = "on_transactions_imported" -> OnTransactionsImportedBody
      [] f = "start_hbbft_epoch_if_next_phase" -> StartHbbftEpochIfNextPhaseBody
      [] f = "replay_cached_messages" -> ReplayCachedMessagesBody
      [] f = "timeout" -> TimeoutBody
      [] f = "on_close_block" -> OnCloseBlockBody
      [] f = "seals_internally" -> SealsInternallyBody
      [] f = "generate_seal" -> GenerateSealBody
      [] f = "verify_block_family" -> VerifyBlockFamilyBody
      [] f = "update_sealing" -> UpdateSealingBody
      [] f = "create_pending_block_at" -> CreatePendingBlockAtBody

\* What each thread calls: the transport handle_message, the IoService the
\* timer handler, the host the rest of the Engine trait.
EntryPoints(t) ==
    IF t \in NetThreads THEN {"handle_message"}
    ELSE IF t \in StepThreads THEN {"timeout"}
    ELSE {"on_transactions_imported", "on_close_block", "seals_internally",
          "generate_seal", "verify_block_family"}

\* The locks thread t holds.
HeldBy(t) == {l \in EngineLocks : \E m \in {"read", "write"} : <<t, m>> \in locks[l]}

\* RwLock: write() is granted when nobody holds the lock, read() when no
\* writer does.
Grantable(l, mode) ==
    IF mode = "write" THEN locks[l] = {}
    ELSE \A h \in locks[l] : h[2] = "read"

\* The paths a thread can take through what it has to do until it next takes
\* or drops a lock: every call ahead of that gives way to one of its paths.
RECURSIVE Paths(_)
Paths(todo) ==
    IF todo = <<>> THEN {<<>>}
    ELSE IF Head(todo).do # "call" THEN {todo}
    ELSE UNION {Paths(b \o Tail(todo)) : b \in Body(Head(todo).on)}

\* Thread t goes on with what is left to do, up to its next lock operation.
Proceed(t, todo) ==
    \E rest \in Paths(todo) :
        /\ script' = [script EXCEPT ![t] = rest]
        /\ pc' = [pc EXCEPT ![t] = IF rest = <<>> THEN "idle" ELSE "called"]

\* The host calls the engine on thread t, with a client registered.
CallEngine(t) ==
    /\ client
    /\ pc[t] = "idle"
    /\ script[t] = <<>>
    /\ \E f \in EntryPoints(t) : Proceed(t, <<Call(f)>>)
    /\ Silent
    /\ UNCHANGED <<counterVars, memoVars, host, client, head, sealing, stepLock,
                   loc, everSig, locks, order, signer>>

\* Thread t is granted the lock it asks for.
AcquireLock(t) ==
    /\ script[t] # <<>>
    /\ Head(script[t]).do = "acquire"
    /\ LET l == Head(script[t]).on
           mode == Head(script[t]).mode IN
         /\ Grantable(l, mode)
         /\ locks' = [locks EXCEPT ![l] = @ \cup {<<t, mode>>}]
         /\ order' = order \cup {<<h, l>> : h \in HeldBy(t)}
         /\ stepLock' = IF l = "message_counter" THEN t ELSE stepLock
    /\ Proceed(t, Tail(script[t]))
    /\ Silent
    /\ UNCHANGED <<counterVars, memoVars, host, client, head, sealing, loc, everSig, signer>>

\* Thread t drops the guard of a lock.
ReleaseLock(t) ==
    /\ script[t] # <<>>
    /\ Head(script[t]).do = "release"
    /\ LET l == Head(script[t]).on IN
         /\ locks' = [locks EXCEPT ![l] = {h \in @ : h[1] # t}]
         /\ stepLock' = IF l = "message_counter" THEN "none" ELSE stepLock
    /\ Proceed(t, Tail(script[t]))
    /\ Silent
    /\ UNCHANGED <<counterVars, memoVars, host, client, head, sealing, loc, everSig, order,
                   signer>>

InitLocks == InitSeal

NextLocks ==
    \/ RegisterClient
    \/ \E t \in Threads :
          \/ CallEngine(t)
          \/ AcquireLock(t)
          \/ ReleaseLock(t)

\* The engine's calls as the lock operations they do, on threads that run
\* side by side.
SpecLocks == InitLocks /\ [][NextLocks]_vars

\* ------------------------------------------------------- dispatch_messages
\* hbbft::Target: Nodes(set) or AllExcept(set), the set a BTreeSet of node ids.
Targets == [kind : {"Nodes", "AllExcept"}, set : SUBSET Validators]

\* NetworkInfo::all_ids: the roster of the network info.
AllIds(h) == {n \in Validators : n <= h.validators}

\* dispatch_messages, were the local node not filtered out.
SendsToUnfiltered(target, our_id, all_ids) ==
    IF target.kind = "Nodes"
       THEN Ascending(target.set)
       ELSE Ascending({p \in all_ids : p \notin target.set})

\* dispatch_messages: the nodes the loop body of a target runs for, in the
\* order of the set's iterator: set.into_iter().filter(|p| p != our_id) for
\* Nodes, all_ids().filter(|p| p != our_id && !set.contains(p)) for AllExcept.
SendsTo(target, our_id, all_ids) ==
    IF target.kind = "Nodes"
       THEN Ascending({p \in target.set : p # our_id})
       ELSE Ascending({p \in all_ids : p # our_id /\ p \notin target.set})

\* The steps' messages a call of dispatch_messages can be given.
TargetedMessages ==
    UNION {[1..n -> [target : Targets]] : n \in 1..MaxStepMessages}

\* process_step or process_seal_step calls dispatch_messages(client, messages,
\* net_info) on thread t.
CallDispatchMessages(t) ==
    /\ pc[t] = "idle"
    /\ client
    /\ netlog = <<>>
    /\ \E messages \in TargetedMessages :
          loc' = [loc EXCEPT ![t] = [NoLoc EXCEPT !.op = "dispatch_messages",
                      !.messages = messages]]
    /\ pc' = [pc EXCEPT ![t] = "for_m"]
    /\ Silent
    /\ UNCHANGED <<counterVars, memoVars, lockVars, signer, host, client, head, sealing,
                   stepLock, everSig>>

\* dispatch_messages, one turn of for m in messages: the message is serialized
\* and client.send_consensus_message(ser.clone(), Some(node_id)) is called for
\* every node the target's loop runs for.
DispatchMessages(t) ==
    /\ pc[t] = "for_m"
    /\ loc[t].msg_idx < Len(loc[t].messages)
    /\ LET i == loc[t].msg_idx + 1
           to == SendsTo(loc[t].messages[i].target, OurId, AllIds(host)) IN
         /\ netlog' = netlog \o [k \in 1..Len(to) |-> [idx |-> i, by |-> t, to |-> to[k]]]
         /\ loc' = [loc EXCEPT ![t].msg_idx = i]
    /\ pc' = pc
    /\ Silent
    /\ UNCHANGED <<memoVars, lockVars, signer, host, client, head, sealing, stepLock, everSig,
                   message_counter, random_numbers>>

\* dispatch_messages returns after the last message.
DispatchMessagesReturn(t) ==
    /\ pc[t] = "for_m"
    /\ loc[t].msg_idx = Len(loc[t].messages)
    /\ Return(t, "none", "dispatch_messages")
    /\ sent' = {}
    /\ core' = <<>>
    /\ UNCHANGED <<counterVars, memoVars, lockVars, signer, host, client, head, sealing,
                   stepLock, everSig>>

\* The engine with a roster of any size that holds the local node.
InitDispatch ==
    /\ InitCore
    /\ InitDispatcher(0)
    /\ \E n \in Validators : host = [HostNew(1, 1, 0, NoPhase) EXCEPT !.validators = n]

NextDispatch ==
    \/ RegisterClient
    \/ \E t \in StepThreads :
          \/ CallDispatchMessages(t)
          \/ DispatchMessages(t)
          \/ DispatchMessagesReturn(t)

\* dispatch_messages on the messages of any step.
SpecDispatch == InitDispatch /\ [][NextDispatch]_vars

\* ------------------------------------------------------- external triggers
\* The calls of the host that refresh the BFT core.
Triggers ==
    {"handle_message", "on_transactions_imported", "on_close_block",
     "verify_local_seal", "register_client", "set_signer"}

\* Where a call starts.
StartOf(op) ==
    CASE op = "handle_message" -> "hm"
      [] op = "on_transactions_imported" -> "imported"
      [] op = "on_close_block" -> "close"
      [] op = "verify_local_seal" -> "local_seal"
      [] op = "register_client" -> "register"
      [] op = "set_signer" -> "set_signer"

\* What do_keygen and the reward call can be answered: get_pending_validators
\* fails or gives an empty or a non-empty set; initialize_synckeygen fails or
\* gives a key generation that is ready or not; is_pending_validator fails or
\* answers; contract.reward succeeds or fails.
KeygenAnswers ==
    [pending : {"err", "empty", "some"}, synckeygen : {"err", "ready", "not_ready"},
     is_pending : {"err", "yes", "no"}, reward : {"ok", "err"}]

\* The host calls the engine on thread t: handle_message with bytes that decode
\* or not and a sender or none, or another trigger; update_honeybadger will
\* answer Some (refreshed) or None.
CallTrigger(t) ==
    /\ pc[t] = "idle"
    /\ \E op \in Triggers, refreshed \in BOOLEAN :
          /\ pc' = [pc EXCEPT ![t] = StartOf(op)]
          /\ IF op = "handle_message"
                THEN \E kind \in {"seal", "hb", "malformed"}, sender \in BOOLEAN :
                        loc' = [loc EXCEPT ![t] = [NoLoc EXCEPT !.op = op,
                                    !.refreshed = refreshed, !.kind = kind,
                                    !.sender = sender,
                                    !.blk = IF kind = "seal" /\ sender THEN 1 ELSE 0]]
                ELSE IF op = "on_close_block"
                        THEN \E answers \in KeygenAnswers :
                                loc' = [loc EXCEPT ![t] = [NoLoc EXCEPT !.op = op,
                                            !.refreshed = refreshed, !.keygen = answers]]
                        ELSE loc' = [loc EXCEPT ![t] = [NoLoc EXCEPT !.op = op,
                                         !.refreshed = refreshed]]
    /\ Silent
    /\ UNCHANGED <<counterVars, memoVars, lockVars, signer, host, client, head, sealing,
                   stepLock, everSig>>

\* verify_local_seal: check_for_epoch_change, then Ok.
VerifyLocalSeal(t) ==
    /\ pc[t] = "local_seal"
    /\ Return(t, "Ok", "verify_local_seal")
    /\ sent' = {}
    /\ core' = CheckForEpochChange(client)
    /\ UNCHANGED <<counterVars, memoVars, lockVars, signer, host, client, head, sealing,
                   stepLock, everSig>>

\* register_client: *self.client.write() = Some(client.clone()).
RegisterClientStore(t) ==
    /\ pc[t] = "register"
    /\ client' = TRUE
    /\ pc' = [pc EXCEPT ![t] = "client_refresh"]
    /\ loc' = loc
    /\ Silent
    /\ UNCHANGED <<counterVars, memoVars, lockVars, signer, host, head, sealing,
                   stepLock, everSig>>

\* register_client and set_signer: if let Some(client) = self.client_arc(),
\* hbbft_state.write().update_honeybadger(..); None is logged.
RefreshAfterStore(t) ==
    /\ pc[t] \in {"client_refresh", "signer_refresh"}
    /\ Return(t, "none", pc[t])
    /\ sent' = {}
    /\ core' = IF client THEN <<"update_honeybadger">> ELSE <<>>
    /\ UNCHANGED <<counterVars, memoVars, lockVars, signer, host, client, head, sealing,
                   stepLock, everSig>>

\* set_signer: *self.signer.write() = Some(signer).
SetSignerStore(t) ==
    /\ pc[t] = "set_signer"
    /\ signer' = TRUE
    /\ pc' = [pc EXCEPT ![t] = "signer_refresh"]
    /\ loc' = loc
    /\ Silent
    /\ UNCHANGED <<counterVars, memoVars, lockVars, host, client, head, sealing,
                   stepLock, everSig>>

\* on_close_block: check_for_epoch_change; only with a block reward contract
\* address the reward is called, and do_keygen for its argument.
OnCloseBlock(t) ==
    /\ pc[t] = "close"
    /\ IF host.block_reward_contract_address
          THEN /\ pc' = [pc EXCEPT ![t] = "keygen"]
               /\ loc' = loc
               /\ ret' = NoRet
          ELSE Return(t, "Ok", "on_close_block")
    /\ sent' = {}
    /\ core' = CheckForEpochChange(client)
    /\ UNCHANGED <<counterVars, memoVars, lockVars, signer, host, client, head, sealing,
                   stepLock, everSig>>

\* do_keygen, were the readiness of the key generation not looked at.
DoKeygenAlwaysReady(hasClient, hasSigner, a) ==
    IF ~hasClient THEN [ready |-> FALSE, sends |-> FALSE]
    ELSE IF a.pending # "some" THEN [ready |-> FALSE, sends |-> FALSE]
    ELSE [ready |-> TRUE, sends |-> FALSE]

\* do_keygen: false without a client, when the pending validators cannot be
\* read or are none; true when the key generation is ready; else, with a signer
\* whose address is a pending validator, send_keygen_transactions, and false.
DoKeygen(hasClient, hasSigner, a) ==
    IF ~hasClient THEN [ready |-> FALSE, sends |-> FALSE]
    ELSE IF a.pending # "some" THEN [ready |-> FALSE, sends |-> FALSE]
    ELSE IF a.synckeygen = "ready" THEN [ready |-> TRUE, sends |-> FALSE]
    ELSE [ready |-> FALSE, sends |-> hasSigner /\ a.is_pending = "yes"]

\* on_close_block: contract.reward(&mut call, self.do_keygen())?, then Ok.
Reward(t) ==
    /\ pc[t] = "keygen"
    /\ LET keygen == DoKeygen(client, signer, loc[t].keygen) IN
         /\ core' = <<"do_keygen">>
                    \o (IF keygen.sends THEN <<"send_keygen_transactions">> ELSE <<>>)
                    \o <<IF keygen.ready THEN "reward(true)" ELSE "reward(false)">>
         /\ Return(t, IF loc[t].keygen.reward = "err" THEN "Err" ELSE "Ok", "reward")
    /\ sent' = {}
    /\ UNCHANGED <<counterVars, memoVars, lockVars, signer, host, client, head, sealing,
                   stepLock, everSig>>

\* The engine with or without a block reward contract address.
InitTriggers ==
    /\ InitCore
    /\ InitDispatcher(0)
    /\ \E address \in BOOLEAN :
          host = [HostNew(1, 1, 0, NoPhase) EXCEPT !.block_reward_contract_address = address]

NextTriggers ==
    \E t \in NetThreads :
          \/ CallTrigger(t)
          \/ HandleMessage(t)
          \/ ProcessHbMessage(t)
          \/ ProcessStepEnter(t)
          \/ NumberMessage(t)
          \/ DispatchMessage(t)
          \/ ProcessStepReturn(t)
          \/ JoinHbbftEpoch(t)
          \/ NetworkInfoFor(t)
          \/ SealingHandle(t)
          \/ ProcessSealStep(t)
          \/ OnTransactionsImported(t)
          \/ OnCloseBlock(t)
          \/ Reward(t)
          \/ VerifyLocalSeal(t)
          \/ RegisterClientStore(t)
          \/ SetSignerStore(t)
          \/ RefreshAfterStore(t)

\* The calls of the host that refresh the BFT core, one call at a time.
SpecTriggers == InitTriggers /\ [][NextTriggers]_vars

\* ------------------------------------------------------------- specification
NextSeal ==
    \/ RegisterClient
    \/ ImportBlock
    \/ \E t \in NetThreads :
          \/ CallHandleMessage(t)
          \/ HandleMessage(t)
          \/ NetworkInfoFor(t)
          \/ SealingHandle(t)
          \/ ProcessSealStep(t)
    \/ \E t \in StepThreads :
          \/ ProcessStepOutput(t)
          \/ ProcessOutput(t)
          \/ CreatePendingBlock(t)
          \/ SealingSignStep(t)
          \/ ProcessSealStep(t)
    \/ \E t \in HostThreads :
          \/ CallSealsInternally(t)
          \/ SealsInternallyRead(t)
          \/ SealsInternallyLock(t)

Spec == InitSeal /\ [][NextSeal]_vars

\* ------------------------------------------------------------------- claims
AllIdle == \A t \in Threads : pc[t] = "idle"

\* C1: once the sealing map held Complete(s) for a block, no later state
\* holds an Ongoing session for that block, nor a Complete session for it
\* with a signature other than s.
C1_CompleteIsFinal ==
    \A b \in Blocks :
        everSig[b] # 0 =>
            /\ sealing[b].kind # "Ongoing"
            /\ sealing[b].kind = "Complete" => sealing[b].sig = everSig[b]

\* C2: a session that was fed Threshold valid, distinct shares becomes
\* Complete with the one signature of its block, whatever the order of the
\* shares (an Ongoing session holding Threshold shares is about to be
\* completed by the thread that fed the last one); a session becomes Complete
\* only from a step whose share made the count reach Threshold, so one fed
\* fewer shares stays Ongoing and has no signature.
HoldsOutput(t, b) == pc[t] = "sealstep" /\ loc[t].blk = b /\ loc[t].out # 0

C2_ThresholdCompletes ==
    [][\A b \in Blocks :
          /\ (sealing[b].kind = "Ongoing" /\ Cardinality(sealing[b].shares) >= Threshold
                 => \E t \in Threads : HoldsOutput(t, b))'
          /\ (sealing[b].kind = "Complete" => sealing[b].sig = BlockHash(b))'
          /\ (sealing[b].kind = "Ongoing" => SealingSignature(sealing[b]) = 0)'
          /\ sealing[b].kind # "Complete" /\ sealing'[b].kind = "Complete"
                 => \E t \in Threads : HoldsOutput(t, b) /\ pc'[t] = "idle"
          /\ \A t \in Threads :
                 pc[t] \in {"handle", "sign"} /\ pc'[t] = "sealstep" /\ loc[t].blk = b
                     => (loc'[t].out # 0 <=>
                            /\ Cardinality(EntryOrInsert(sealing, b).shares) = Threshold - 1
                            /\ Cardinality(sealing'[b].shares) = Threshold)
      ]_vars

\* A session completed by its Threshold-th share while another block's session
\* holds Threshold - 1 shares and stays Ongoing.
C2_Witness ==
    /\ AllIdle
    /\ \E b \in Blocks : sealing[b].kind = "Complete" /\ ret = [val |-> "Ok", at |-> "seal_step"]
    /\ \E b \in Blocks : sealing[b].kind = "Ongoing"
                            /\ Cardinality(sealing[b].shares) = Threshold - 1

C4_GenerateSeal ==
    [][\A t \in HostThreads :
          pc[t] = "gs" /\ pc'[t] # "gs" =>
              LET header == [number |-> loc[t].blk, hash |-> loc[t].hash] IN
              /\ sealing' = sealing
              /\ ret'.val \in {"Regular", "None"}
              /\ ret'.val = "Regular" <=>
                    /\ client
                    /\ sealing[header.number].kind = "Complete"
                    /\ VerifySeal(sealing[header.number].sig, header)
      ]_vars

\* generate_seal returned a Regular seal.
C4_Witness == ret = [val |-> "Regular", at |-> "seal"]

C10_NoRoster ==
    [][\A t \in NetThreads :
          pc[t] = "handle" /\ pc'[t] # "handle" /\ ~loc[t].roster
          => /\ pc'[t] = "idle"
             /\ ret'.val = "UnexpectedMessage"
             /\ sealing' = sealing
      ]_vars

\* handle_message failed for want of a roster, and the block has no session.
C10_Witness ==
    /\ ret = [val |-> "UnexpectedMessage", at |-> "roster"]
    /\ \E b \in Blocks : b > head /\ sealing[b] = Absent

\* C5: verify_block_family returns Ok exactly when a client is registered, the
\* header's number is at most the latest block number + 1, the seal has exactly
\* one field, that field decodes and verify_seal accepts the signature; without
\* a client it returns RequiresClient; with one, a header numbered above
\* latest + 1, a seal of zero or several fields and a rejected signature each
\* give InvalidSeal.
C5_VerifyBlockFamily ==
    [][\A t \in HostThreads :
          pc[t] = "vbf" /\ pc'[t] # "vbf" =>
              LET number == loc[t].blk
                  seal   == loc[t].seal
                  header == [number |-> number, hash |-> loc[t].hash, seal |-> seal]
                  inOrder == number <= head + 1
              IN
              /\ ret'.val = "Ok" <=>
                    /\ client
                    /\ inOrder
                    /\ Len(seal) = 1
                    /\ RlpDecodes(seal[1])
                    /\ VerifySeal(seal[1], header)
              /\ ~client => ret'.val = "RequiresClient"
              /\ client /\ ~inOrder => ret'.val = "InvalidSeal"
              /\ client /\ Len(seal) # 1 => ret'.val = "InvalidSeal"
              /\ client /\ inOrder /\ Len(seal) = 1 /\ RlpDecodes(seal[1])
                    /\ ~VerifySeal(seal[1], header) => ret'.val = "InvalidSeal"
      ]_vars

\* verify_block_family accepted the header that follows an imported block.
C5_Witness ==
    /\ ret = [val |-> "Ok", at |-> "family"]
    /\ head >= 1

\* C6 as stated: the entries given a tracking id, taken in ascending tracking
\* id, are in the order in which they were enqueued, consensus messages and
\* sealing messages together.
C6_AuditOrderIsEnqueueOrder ==
    \A i \in DOMAIN audit, j \in DOMAIN audit :
        /\ audit[i].id # 0
        /\ audit[j].id # 0
        /\ audit[i].id < audit[j].id
        => audit[i].n < audit[j].n

\* C6, amended: tracking ids are handed out in the order the worker pops, one
\* higher each time, and among the entries of one kind ascending tracking id
\* is the enqueue order; across the kinds it need not be, for an iteration
\* takes a consensus message before a sealing message whenever both wait.
C6_AuditOrderPerKind ==
    /\ \A i \in DOMAIN audit, j \in DOMAIN audit :
          /\ audit[i].id # 0
          /\ audit[j].id # 0
          /\ audit[i].kind = audit[j].kind
          /\ audit[i].id < audit[j].id
          => audit[i].n < audit[j].n
    /\ \A i \in DOMAIN audit, j \in DOMAIN audit :
          i < j /\ audit[i].id # 0 /\ audit[j].id # 0 => audit[i].id < audit[j].id
    /\ \A i \in DOMAIN audit :
          audit[i].id # 0 => audit[i].id = Cardinality({j \in 1..i : audit[j].id # 0})
    /\ memorial.message_tracking_id = Cardinality({j \in DOMAIN audit : audit[j].id # 0})

\* A sealing message enqueued before a consensus message got the higher
\* tracking id, and two entries of one kind got theirs in enqueue order.
C6_Witness ==
    /\ \E i \in DOMAIN audit, j \in DOMAIN audit :
          /\ audit[i].kind = "message" /\ audit[j].kind = "seal"
          /\ audit[i].id # 0 /\ audit[i].id < audit[j].id
          /\ audit[i].n > audit[j].n
    /\ \E i \in DOMAIN audit, j \in DOMAIN audit :
          /\ audit[i].kind = audit[j].kind
          /\ audit[i].id # 0 /\ audit[i].id < audit[j].id

\* C7: each audit queue is first in, first out: a queue holds its entries in
\* the order they were pushed, every entry still queued was pushed after every
\* entry of its queue already popped, and the worker pops the entries of one
\* queue in the order they were pushed.
QueueOf(kind) ==
    IF kind = "message" THEN memorial.dispatched_messages
    ELSE IF kind = "seal" THEN memorial.dispatched_seals
    ELSE memorial.dispatched_seal_event_good

C7_QueueFifo ==
    \A kind \in {"message", "seal"} :
        LET q == QueueOf(kind) IN
        /\ \A i \in DOMAIN q : q[i].kind = kind
        /\ \A i \in DOMAIN q, j \in DOMAIN q : i < j => q[i].n < q[j].n
        /\ \A i \in DOMAIN audit, j \in DOMAIN q :
              audit[i].kind = kind => audit[i].n < q[j].n
        /\ \A i \in DOMAIN audit, j \in DOMAIN audit :
              i < j /\ audit[i].kind = kind /\ audit[j].kind = kind
                  => audit[i].n < audit[j].n

\* Two sealing messages were popped one after the other while a third entry
\* still waits in a queue.
C7_Witness ==
    /\ \E i \in DOMAIN audit, j \in DOMAIN audit :
          i < j /\ audit[i].kind = "seal" /\ audit[j].kind = "seal"
    /\ \E kind \in {"message", "seal"} : QueueOf(kind) # <<>>

\* C8: the BFT-core messages handed to the network carry the numbers 1, 2, 3,
\* ... in that order, whichever threads process the steps: no number is used
\* twice or left out, and the counter is ahead of the network by exactly the
\* message that is numbered and not yet dispatched.
C8_MessageNumbers ==
    /\ \A i \in DOMAIN netlog : netlog[i].idx = i
    /\ message_counter =
          Len(netlog) + Cardinality({t \in Threads : pc[t] = "dispatch"})
    /\ Cardinality({t \in Threads : pc[t] = "dispatch"}) <= 1

\* Both threads had messages numbered and dispatched, one after the other.
C8_Witness ==
    /\ Len(netlog) >= 3
    /\ \E i \in DOMAIN netlog, j \in DOMAIN netlog : netlog[i].by # netlog[j].by

\* C11: handle_message called with a sender and bytes that decode to neither
\* envelope variant returns MalformedMessage, leaves the sealing map, the
\* message counter and the random-number map as they were and sends no message.
C11_MalformedMessage ==
    [][\A t \in NetThreads :
          (/\ pc[t] = "hm" /\ pc'[t] # "hm"
           /\ loc[t].sender /\ loc[t].kind = "malformed")
          => /\ pc'[t] = "idle"
             /\ ret' = [val |-> "MalformedMessage", at |-> "decode"]
             /\ sealing' = sealing
             /\ message_counter' = message_counter
             /\ random_numbers' = random_numbers
             /\ sent' = {}
             /\ netlog' = netlog
      ]_vars

\* handle_message returned MalformedMessage while sealing sessions, a random
\* number and a client were there to be disturbed.
C11_Witness ==
    /\ ret = [val |-> "MalformedMessage", at |-> "decode"]
    /\ \E b \in Blocks : sealing[b].kind # "Absent"
    /\ \E e \in Blocks : random_numbers[e] # NoRandom

C13_TooManyBatches ==
    [][\A t \in StepThreads :
          /\ (/\ pc[t] = "output" /\ pc'[t] # "output"
              /\ Len(loc[t].output) > 1)
             => /\ pc'[t] = "panicked"
                /\ ret' = [val |-> "panic", at |-> "process_output"]
                /\ random_numbers' = random_numbers
                /\ sealing' = sealing
                /\ sent' = {}
          /\ pc[t] = "panicked" => pc'[t] = "panicked"
      ]_vars

\* process_output panicked on two batches after an earlier batch was processed.
C13_Witness ==
    /\ \E t \in StepThreads : pc[t] = "panicked"
    /\ ret = [val |-> "panic", at |-> "process_output"]
    /\ \E e \in Blocks : random_numbers[e] # NoRandom

\* The contributors of a batch whose timestamp is below (or at) a value.
Below(contributions, time) ==
    {n \in DOMAIN contributions : contributions[n].timestamp < time}

AtMost(contributions, time) ==
    {n \in DOMAIN contributions : contributions[n].timestamp <= time}

\* C14: for a step with one batch of n >= 1 contributions, the timestamp handed
\* to create_pending_block_at is the element at position n div 2 (from 0) of
\* the timestamps in ascending order: at most n div 2 timestamps are below it
\* and more than n div 2 are at most it; with no contribution process_output
\* returns and no block is constructed.
C14_MedianTimestamp ==
    [][\A t \in StepThreads :
          (/\ pc[t] = "output" /\ pc'[t] # "output"
           /\ Len(loc[t].output) = 1)
          => LET c == Head(loc[t].output).contributions
                 n == Cardinality(DOMAIN c)
             IN  IF n = 0
                    THEN /\ pc'[t] = "idle"
                         /\ ret' = [val |-> "none", at |-> "no_timestamp"]
                         /\ sealing' = sealing
                    ELSE /\ pc'[t] = "create"
                         /\ \E m \in DOMAIN c : loc'[t].timestamp = c[m].timestamp
                         /\ Cardinality(Below(c, loc'[t].timestamp)) <= n \div 2
                         /\ Cardinality(AtMost(c, loc'[t].timestamp)) > n \div 2
      ]_vars

\* create_pending_block_at is about to be called with the later timestamp of a
\* batch of two contributions with different timestamps.
C14_Witness ==
    \E t \in StepThreads :
       /\ pc[t] = "create"
       /\ LET c == Head(loc[t].output).contributions
          IN  /\ Cardinality(DOMAIN c) = 2
              /\ \E m \in DOMAIN c : c[m].timestamp < loc[t].timestamp

\* Bit k of the number x.
Bit(x, k) == (x \div (2^k)) % 2

\* The contributors of a batch whose random data is long enough and has bit k set.
Supplying(contributions, k) ==
    {n \in DOMAIN contributions :
        /\ contributions[n].random_data.len >= RandomDataLen
        /\ Bit(contributions[n].random_data.word, k) = 1}

\* C15: the random number recorded for a batch's epoch is the XOR of the first
\* 32 bytes of every contribution with at least 32 bytes of random data: each
\* of its bits is the parity of the number of such contributions with that bit
\* set, whichever validators supplied them; a shorter contribution is left out
\* and process_output still goes on to create_pending_block_at.
C15_RandomNumber ==
    [][\A t \in StepThreads :
          (/\ pc[t] = "output" /\ pc'[t] # "output"
           /\ Len(loc[t].output) = 1
           /\ DOMAIN Head(loc[t].output).contributions # {})
          => LET batch == Head(loc[t].output)
                 r     == random_numbers'[batch.epoch]
             IN  /\ pc'[t] = "create"
                 /\ r \in Words
                 /\ \A k \in 0..(WordBits - 1) :
                       Bit(r, k) = Cardinality(Supplying(batch.contributions, k)) % 2
                 /\ \A e \in Blocks \ {batch.epoch} :
                       random_numbers'[e] = random_numbers[e]
      ]_vars

\* A batch with one contribution too short and two long enough, whose numbers
\* cancel, was processed: 0 is recorded and the block is about to be built.
C15_Witness ==
    \E t \in StepThreads :
       /\ pc[t] = "create"
       /\ LET c == Head(loc[t].output).contributions
          IN  /\ \E n \in DOMAIN c : /\ c[n].random_data.len < RandomDataLen
                                     /\ c[n].random_data.word # 0
              /\ Cardinality(Supplying(c, 0)) = 2
              /\ random_numbers[loc[t].epoch] = 0

\* C16: every message dispatch_messages hands to the network is also recorded
\* once in the dispatcher's queue of dispatched messages: the step that sends a
\* numbered message of the BFT core appends one entry to dispatched_messages.
C16_DispatchMirrored ==
    [][Len(netlog') = Len(netlog) + 1
          => /\ Len(memorial'.dispatched_messages) = Len(memorial.dispatched_messages) + 1
             /\ enqueued' = enqueued + 1
      ]_vars

\* The retention the memorium was built with.
Keep == memorial.config_blocks_to_keep_on_disk

\* The highest epoch persisted by the first i items of the worker's history (0: none).
Newest(i) ==
    LET persisted == {audit[j].epoch : j \in {k \in 1..i : audit[k].wrote}}
    IN  IF persisted = {} THEN 0
        ELSE CHOOSE e \in persisted : \A f \in persisted : f <= e

PersistedInOrder(last) ==
    /\ Len(audit) = last
    /\ \A i \in 1..last :
          /\ audit[i].kind \in {"message", "seal"}
          /\ audit[i].epoch = i
          /\ ~audit[i].failed
          /\ i < last => audit[i].wrote

C19_NothingOlderRemains ==
    (Keep > 0 /\ Faults(audit) = 0)
       => \A d \in disk.dirs : d > Newest(Len(audit)) - Keep

\* The watermark after the i-th item of the worker's history: the one the
\* next item met, or the memorium's.
WatermarkAfter(i) ==
    IF i < Len(audit) THEN audit[i + 1].last
    ELSE memorial.last_block_deleted_from_disk

\* The items of the worker's history handed to on_message_string_received.
Received == {i \in 1..Len(audit) : audit[i].id # 0}

\* C20: the worker writes an item exactly when the retention is nonzero and the
\* item's epoch is above the deletion watermark (unless the file system fails);
\* else no directory or file is created and the watermark stays; in both cases
\* the tracking id advances by one.
C20_WrittenAboveWatermark ==
    /\ \A i \in Received :
          LET e   == audit[i]
              due == Keep > 0 /\ e.epoch > e.last
          IN  /\ e.id = Cardinality({j \in Received : j < i}) + 1
              /\ ~e.failed => (e.wrote <=> due)
              /\ ~due => /\ ~e.wrote
                         /\ e.deleted = {}
                         /\ WatermarkAfter(i) = e.last
    /\ memorial.message_tracking_id = Cardinality(Received)
    /\ \A f \in disk.files :
          \E i \in Received :
             /\ f = <<audit[i].epoch, audit[i].id>>
             /\ Keep > 0 /\ audit[i].epoch > audit[i].last
    /\ \A d \in disk.dirs :
          \E i \in Received :
             /\ d = audit[i].epoch
             /\ Keep > 0 /\ audit[i].epoch > audit[i].last
    /\ Keep = 0 => disk = EmptyDisk

\* An item at or below the watermark was skipped after another was written,
\* and got the next tracking id.
C20_Witness ==
    \E i \in Received :
       /\ audit[i].epoch <= audit[i].last
       /\ ~audit[i].wrote
       /\ audit[i].id > 1
       /\ \E j \in Received : j < i /\ audit[j].wrote

\* The staking-epoch history after the i-th call of the calls' history.
HistoryAfter(i) ==
    IF i < Len(calls) THEN calls[i + 1].before
    ELSE memorial.staking_epoch_history

\* C21: after report_new_epoch(E, S) for an epoch id E not yet in the history,
\* the history holds the open entry (E, S, 0), and the lookup of a block of
\* that epoch (S + 1) finds an entry.
C21_NewEpochRecorded ==
    \A i \in 1..Len(calls) :
       (/\ calls[i].op = "report_new_epoch"
        /\ ~BinarySearchOk(calls[i].before, calls[i].a))
       => /\ \E k \in 1..Len(HistoryAfter(i)) :
                HistoryAfter(i)[k] = StakingEpochHistoryNew(calls[i].a, calls[i].b, 0)
          /\ GetStakingEpochHistory(HistoryAfter(i), calls[i].b + 1) # NoHistory

Ancient(history, current_block) ==
    {k \in 1..Len(history) :
        /\ history[k].staking_epoch_end_block # 0
        /\ history[k].staking_epoch_end_block + Keep < current_block}

\* The entries of history at the positions of keep, in their order.
RECURSIVE Kept(_, _, _)
Kept(history, k, keep) ==
    IF k > Len(history) THEN <<>>
    ELSE (IF k \in keep THEN <<history[k]>> ELSE <<>>) \o Kept(history, k + 1, keep)

C27_WorkerSurvivesFailures ==
    /\ \A i, j \in 1..Len(audit) : audit[i].n = audit[j].n => i = j
    /\ Faults(audit) > 0 => worker # "dead"

\* C28: the worker sleeps after an iteration exactly when that iteration popped
\* nothing: an iteration that ends in the sleep left the history of popped
\* entries as it was, and one that popped nothing ends in the sleep.
C28_SleepsOnlyWhenIdle ==
    [][worker = "running" /\ worker' \in {"running", "sleeping"}
       /\ (worker' # worker \/ audit' # audit)
          => (worker' = "sleeping" <=> audit' = audit)]_vars

\* The four queues of the dispatcher.
AuditQueues ==
    {"dispatched_messages", "dispatched_seals",
     "dispatched_seal_event_good", "dispatched_seal_event_bad"}

\* C29: under fair scheduling of a worker that is not ended by a panic, every
\* entry pushed to one of the four queues is popped: from some moment on, when
\* the producers have stopped, every queue is empty for good.
C29_QueuesDrain ==
    <>[](worker # "dead" => \A q \in AuditQueues : memorial[q] = <<>>)

\* C30: no thread holds an engine lock at the moment it hands a message to
\* send_consensus_message or asks the host to construct a block: a thread about
\* to dispatch a numbered message, or about to call create_pending_block_at,
\* does not hold the message_counter lock.
C30_NoLockAcrossCalls ==
    \A t \in Threads : pc[t] \in {"dispatch", "create"} => stepLock # t

\* C24: on every path, from on_transactions_imported and from the timer's
\* start_hbbft_epoch_if_next_phase, try_send_contribution is invoked only when
\* the clock has reached the latest block's timestamp plus minimum_block_time
\* and the queue holds at least transaction_queue_size_trigger transactions:
\* a call of start_hbbft_epoch that invokes try_send_contribution was made with
\* both thresholds reached.
C24_ContributionGated ==
    [][\A t \in Threads :
          pc[t] = "start" /\ core' = <<"try_send_contribution">>
             => loc[t].thresholds]_vars

\* C25: the timer a tick registers has a delay of at least 1 ms and at most
\* minimum_block_time when there is a client with a latest header, whatever
\* minimum_block_time is, and of 1 second without a header or without a client.
C25_TimerDelay ==
    ret = [val |-> "none", at |-> "timeout"] =>
       IF client /\ host.header # NoHeader
          THEN /\ host.timer >= 1
               /\ host.timer <= host.minimum_block_time * Millis
          ELSE host.timer = DEFAULT_DURATION

Blocked(t) ==
    /\ script[t] # <<>>
    /\ Head(script[t]).do = "acquire"
    /\ ~Grantable(Head(script[t]).on, Head(script[t]).mode)

\* The threads whose guards keep thread t from the lock it asks for.
Blockers(t) ==
    {h[1] : h \in {g \in locks[Head(script[t]).on] :
                      Head(script[t]).mode = "write" \/ g[2] = "write"}}

\* The locks taken, directly or through others, while lock l was held.
RECURSIVE TakenUnder(_, _)
TakenUnder(l, n) ==
    IF n = 0 THEN {l}
    ELSE LET under == TakenUnder(l, n - 1) IN
           under \cup {e[2] : e \in {o \in order : o[1] \in under}}

\* C31: for every interleaving of message-handling threads, the timer thread
\* and host calls, no set of threads waits for engine locks that only its own
\* members can free, and the locks on the BFT-core state, the sealing map, the
\* message counter and the random-number map are never taken in a cyclic order:
\* no lock is taken, directly or through others, under a lock that is taken under it.
C31_NoCyclicLockOrder ==
    /\ \A S \in SUBSET Threads :
          S # {} => \E t \in S : ~Blocked(t) \/ Blockers(t) \cap S = {}
    /\ \A l \in EngineLocks :
          \A o \in order :
              o[1] \in TakenUnder(l, Cardinality(EngineLocks)) => o[2] # l

\* C31 happens: a thread waits for a lock while another thread holds it, after
\* locks were taken under the message counter and under the sealing map.
C31_Witness ==
    /\ \E t \in Threads : Blocked(t) /\ Blockers(t) # {}
    /\ <<"message_counter", "sealing">> \in order
    /\ <<"sealing", "hbbft_state">> \in order
    /\ <<"message_counter", "hbbft_state">> \in order

\* The nodes a target names: the set itself, or the roster without the set.
Named(target) ==
    IF target.kind = "Nodes" THEN target.set ELSE AllIds(host) \ target.set

\* How often message i of the call was handed to send_consensus_message for node n.
TimesSent(i, n) ==
    Cardinality({k \in DOMAIN netlog : netlog[k].idx = i /\ netlog[k].to = n})

\* C32: dispatch_messages never sends a message to the local node: every
\* message it is through with was sent exactly once to each node its target
\* names (the set of Nodes(S), the roster without S for AllExcept(S)) other
\* than the local node, and to no other node.
C32_DispatchTargets ==
    \A t \in Threads :
        pc[t] = "for_m" =>
            \A i \in 1..loc[t].msg_idx : \A n \in Validators :
                TimesSent(i, n) =
                    IF n \in Named(loc[t].messages[i].target) \ {OurId} THEN 1 ELSE 0

\* C32 happens: a message for Nodes(S) with the local node and a peer outside
\* the roster in S, and a message for AllExcept of one peer, were dispatched.
C32_Witness ==
    \E t \in Threads :
        /\ pc[t] = "for_m"
        /\ loc[t].msg_idx = 2
        /\ host.validators = 2
        /\ loc[t].messages[1].target = [kind |-> "Nodes", set |-> {OurId, 3}]
        /\ loc[t].messages[2].target = [kind |-> "AllExcept", set |-> {3}]
        /\ Len(netlog) = 2
\* Thread t takes the first step of the call it is in.
FirstStep(t, starts) == pc[t] \in starts /\ pc'[t] # pc[t]

\* The step just taken asked the BFT core, first of all, for its instance.
RefreshedFirst == core' # <<>> /\ Head(core') = "update_honeybadger"

\* C33 as stated: with a client registered, the first thing every external
\* trigger (handle_message, on_transactions_imported, on_close_block,
\* verify_local_seal, register_client, set_signer) does is to ask the BFT core
\* to refresh its instance.
C33_RefreshBeforeAnythingElse ==
    [][\A t \in Threads :
          client /\ FirstStep(t, {StartOf(op) : op \in Triggers}) => RefreshedFirst]_vars

\* C33, amended: with a client registered, handle_message (before the sender
\* check and the decoding, whatever they find), on_transactions_imported,
\* on_close_block and verify_local_seal first of all ask the BFT core to refresh
\* its instance; register_client and set_signer store the client or the signer
\* and ask for the refresh right after; a refresh that fails makes no call
\* return an error or stop: the errors of handle_message are those of its
\* message alone, verify_local_seal returns Ok, on_close_block goes on to the
\* reward, register_client and set_signer return.
C33_RefreshFirstOrAfterStore ==
    [][\A t \in Threads :
          /\ client /\ FirstStep(t, {"hm", "imported", "close", "local_seal"})
                => RefreshedFirst
          /\ FirstStep(t, {"register"})
                => core' = <<>> /\ client' /\ pc'[t] = "client_refresh"
          /\ FirstStep(t, {"set_signer"})
                => core' = <<>> /\ signer' /\ pc'[t] = "signer_refresh"
          /\ client /\ FirstStep(t, {"client_refresh", "signer_refresh"})
                => core' = <<"update_honeybadger">>
          /\ client /\ ~loc[t].refreshed /\ pc'[t] # pc[t]
                => CASE pc[t] = "hm" ->
                          /\ ret'.val = "UnexpectedMessage" <=> ~loc[t].sender
                          /\ ret'.val = "MalformedMessage"
                                <=> loc[t].sender /\ loc[t].kind = "malformed"
                          /\ ret'.val \in {"UnexpectedMessage", "MalformedMessage",
                                           "Ok", "none"}
                     [] pc[t] = "local_seal" -> ret'.val = "Ok"
                     [] pc[t] = "imported" -> ret'.val = "none"
                     [] pc[t] = "close" ->
                          IF host.block_reward_contract_address
                             THEN pc'[t] = "keygen" ELSE ret'.val = "Ok"
                     [] pc[t] \in {"client_refresh", "signer_refresh"} ->
                          ret'.val = "none" /\ pc'[t] = "idle"
                     [] OTHER -> TRUE]_vars

\* C33 happens: with a client and a signer, handle_message asked for a refresh
\* that failed and went on to the BFT core with its message.
C33_Witness ==
    \E t \in Threads :
        /\ client /\ signer
        /\ pc[t] = "hb_msg"
        /\ ~loc[t].refreshed
        /\ core = <<"update_honeybadger">>
\* The operations of the step just taken, as a set.
Called == {core'[k] : k \in DOMAIN core'}

\* C34: every on_close_block call runs the keygen check (do_keygen) exactly
\* once, whatever the engine parameters; the check reports true only when the
\* pending validator set is non-empty and key generation is ready, and it
\* submits key-generation transactions only when key generation is not ready,
\* a signer is set and the local node is a pending validator.
C34_KeygenOncePerClose ==
    [][\A t \in Threads :
          /\ FirstStep(t, {"close"}) => pc'[t] = "keygen"
          /\ FirstStep(t, {"keygen"}) =>
                /\ Cardinality({k \in DOMAIN core' : core'[k] = "do_keygen"}) = 1
                /\ "reward(true)" \in Called =>
                      loc[t].keygen.pending = "some" /\ loc[t].keygen.synckeygen = "ready"
                /\ "send_keygen_transactions" \in Called =>
                      /\ loc[t].keygen.synckeygen # "ready"
                      /\ signer
                      /\ loc[t].keygen.is_pending = "yes"]_vars
\* The block numbers of the seal events of a kind added so far.
Added(op) == {k \in DOMAIN calls : calls[k].op = op}

\* The highest block number among the good events added, 0 if none.
HighestGood ==
    LET blocks == {calls[k].a : k \in Added("add_good_seal_event")} \cup {0}
    IN  CHOOSE b \in blocks : \A c \in blocks : c <= b

\* C35: after any sequence of add_good_seal_event and add_bad_seal_event calls
\* on a NodeStakingEpochHistory, the good count equals the number of good events
\* added, the error count equals the number of bad events added, and
\* last_good_sealing_message equals the highest block number among the good
\* events (0 if none), unaffected by bad events.
C35_SealEventCounts ==
    /\ GetTotalGoodSealingMessages(NodeHistory)
           = Cardinality(Added("add_good_seal_event"))
    /\ GetTotalErrorSealingMessages(NodeHistory)
           = Cardinality(Added("add_bad_seal_event"))
    /\ NodeHistory.last_good_sealing_message = HighestGood
\* Block b lies in the half-open range [start, end) of the entry, an end of 0
\* leaving the range open.
InRange(entry, b) ==
    /\ b >= entry.staking_epoch_start_block
    /\ entry.staking_epoch_end_block = 0 \/ b < entry.staking_epoch_end_block

Inserts(b) ==
    /\ sealing'[b] # sealing[b]
    /\ sealing'[b] # Absent
    /\ sealing[b] = Absent \/ SealingSignature(sealing'[b]) # 0

\* C37: under any interleaving of sealing-message handling with block import,
\* the engine never inserts a session (Ongoing or Complete) into the sealing map
\* for a block number that is at or below the chain head at the moment of the
\* insertion.
C37_NoObsoleteInsertion ==
    [][\A b \in Blocks : Inserts(b) => b > head]_vars

\* C38: with retention K > 0 and no I/O failure, every item the worker hands to
\* on_message_string_received whose epoch is within the retention window of
\* the newest epoch persisted before it (epoch > newest - K) is written; so a
\* further item for the epoch that triggered the last cleanup is written too.
C38_WindowItemsWritten ==
    (Keep > 0 /\ \A j \in Received : ~audit[j].failed) =>
       \A i \in Received :
          audit[i].epoch > Newest(i - 1) - Keep => audit[i].wrote


\* The calls that ask the BFT core for a local contribution.
ContributionCalls ==
    {"try_send_contribution", "contribute_if_contribution_threshold_reached"}

\* C39: while the client is in a major sync, or is no full client, no step of
\* the timer handler, of on_transactions_imported or of handle_message asks
\* the BFT core for a local contribution: neither try_send_contribution nor
\* contribute_if_contribution_threshold_reached is called.
C39_NoContributionWhileSyncing ==
    [][host.sync \in {"major_syncing", "not_full"} =>
          \A i \in 1..Len(core') : core'[i] \notin ContributionCalls]_vars

\* on_transactions_imported reached start_hbbft_epoch with the thresholds met
\* while the client was in a major sync, and returned from there.
C39_Witness ==
    /\ client
    /\ host.sync = "major_syncing"
    /\ ThresholdsReached(host)
    /\ ret = [val |-> "none", at |-> "syncing"]
    /\ core = <<>>


\* The sets of contributors of a batch that may be faulty together: at most f
\* of n contributors with n >= 2f + 1.
FaultySets(contributions) ==
    {F \in SUBSET DOMAIN contributions :
        2 * Cardinality(F) + 1 <= Cardinality(DOMAIN contributions)}

\* C40: for a batch of n contributions of which at most f come from faulty
\* validators, n >= 2f + 1, the timestamp process_output hands to
\* create_pending_block_at lies between the smallest and the largest timestamp
\* of the other contributors, whatever the faulty ones proposed.
C40_TimestampWithinHonestRange ==
    [][\A t \in StepThreads :
          (/\ pc[t] = "output" /\ pc'[t] = "create"
           /\ Len(loc[t].output) = 1)
          => LET c == Head(loc[t].output).contributions
             IN  \A F \in FaultySets(c) :
                    /\ \E lo \in DOMAIN c \ F : c[lo].timestamp <= loc'[t].timestamp
                    /\ \E hi \in DOMAIN c \ F : loc'[t].timestamp <= c[hi].timestamp
      ]_vars

\* create_pending_block_at is about to be called for a batch of three
\* contributions, one of which lies outside the range of the other two.
C40_Witness ==
    \E t \in StepThreads :
       /\ pc[t] = "create"
       /\ Len(loc[t].output) = 1
       /\ LET c == Head(loc[t].output).contributions
          IN  /\ Cardinality(DOMAIN c) = 3
              /\ \E m \in DOMAIN c :
                    /\ {m} \in FaultySets(c)
                    /\ \A h \in DOMAIN c \ {m} : c[h].timestamp < c[m].timestamp
                    /\ loc[t].timestamp < c[m].timestamp

====
